---- MODULE Spec2Model ----
(***************************************************************************)
(* Model of the game state and resolution engine of vida-loka-estrategia:  *)
(* the GameManager (internal/game/manager.go), its persistence adapter     *)
(* GameStateStorage, the event-response handler of the WhatsApp client     *)
(* (internal/whatsapp/client.go) and the EventSystem that triggers events  *)
(* on a ticker (internal/game/utils.go), and the DecisionEngine of the     *)
(* auto-pilot.                                                             *)
(*                                                                         *)
(* The Player Store is gm.state.Players, a Go map keyed by phone number;   *)
(* it is modelled as a function whose domain is the set of registered      *)
(* phone numbers.  Pointers into the catalog (CurrentCharacter,            *)
(* CurrentEvent) are modelled by the identifier of the catalog entry, and  *)
(* a nil pointer by the empty string.  Wall-clock fields (CreatedAt,       *)
(* LastActiveAt, LastEventAt, Decision.Timestamp), the random Decision.ID  *)
(* and free-text fields (descriptions, Decision.Outcome) are not part of   *)
(* the model.                                                              *)
(***************************************************************************)
EXTENDS Integers, Sequences, FiniteSets, TLC

VARIABLES
    players,    \* gm.state.Players: phone number -> Player record
    disk,       \* the document at gss.savePath
    ret,        \* the value returned by the most recent call
    calls,      \* number of calls issued so far
    pc,         \* position of each concurrent command worker
    stateLock,  \* gm.stateLock: the writer (or NoWorker) and the set of readers
    local,      \* the local variables of each concurrent command worker
    es,         \* gm.eventSys: the stop channel, the ticker and the tick loops
    tick        \* what the most recent run of triggerEvents logged, per player

vars == <<players, disk, ret, calls, pc, stateLock, local, es, tick>>

(***************************************************************************)
(* Bounds of the model.                                                    *)
(***************************************************************************)
MaxCalls == 2

(***************************************************************************)
(* Program constants.                                                      *)
(***************************************************************************)
RandomEventProbability == 20
DefaultXP == 0
DefaultMoney == 100
DefaultInfluence == 0
DieSides == 20
StressMax == 100
StressMin == 0
FavoritePercent == 120
FavoriteChance == 60
OptionDrawSides == 10
HighestScoreStart == -1000

Phones == {"5521999999999", "5521888888888"}
Names == {"Ana", "Bia"}
Workers == {"w1", "w2"}
NoWorker == "none"

NoCharacter == ""
NoEvent == ""
NoZone == ""

(***************************************************************************)
(* Content catalog: gm.state.Characters, Actions, Zones and Events.  The   *)
(* entries have the shape of the data files and of the fixtures of the     *)
(* unit tests (test_character: proficiencia 4, reward multiplier 100,      *)
(* xp +10, favourite action).                                              *)
(***************************************************************************)
Characters ==
    [ estudante |->
        [ID |-> "estudante", Type |-> "estudante",
         Carisma |-> 3, Proficiencia |-> 4, Rede |-> 2, Moralidade |-> 5, Resiliencia |-> 3,
         FavoriteActions |-> <<"trabalhar">>],
      hacker |->
        [ID |-> "hacker", Type |-> "nerd_hacker",
         Carisma |-> 2, Proficiencia |-> 5, Rede |-> 4, Moralidade |-> 3, Resiliencia |-> 2,
         FavoriteActions |-> <<>>] ]

CharacterIDs == DOMAIN Characters

MkOutcome(xp, money, influence, stress) ==
    [XPChange |-> xp, MoneyChange |-> money, InfluenceChange |-> influence,
     StressChange |-> stress, NewZone |-> "", NewSubZone |-> "", NextEventID |-> ""]

(* The nil *Outcome returned together with an error. *)
NoOutcome == MkOutcome(0, 0, 0, 0)

Actions ==
    [ trabalhar |-> [ID |-> "trabalhar", BonusAttribute |-> "proficiencia",
                     BaseOutcome |-> MkOutcome(10, 50, 5, 60)],
      relaxar   |-> [ID |-> "relaxar", BonusAttribute |-> "resiliencia",
                     BaseOutcome |-> MkOutcome(0, -10, 0, -20)],
      estudar   |-> [ID |-> "estudar", BonusAttribute |-> "sorte",
                     BaseOutcome |-> MkOutcome(7, -50, 1, 10)] ]

ActionIDs == DOMAIN Actions

Zones ==
    [ centro |->
        [ID |-> "centro",
         SubZones |-> << [ID |-> "lapa", RewardMultiplier |-> 100,
                          AvailableActions |-> <<"trabalhar", "relaxar">>],
                         [ID |-> "porto_maravilha", RewardMultiplier |-> 130,
                          AvailableActions |-> <<"estudar", "relaxar">>] >>],
      zona_sul |->
        [ID |-> "zona_sul",
         SubZones |-> << [ID |-> "copacabana", RewardMultiplier |-> 120,
                          AvailableActions |-> <<"trabalhar">>] >>] ]

ZoneIDs == DOMAIN Zones

Events ==
    [ evento_001 |->
        [ID |-> "evento_001", MinXP |-> 0, MinMoney |-> 0, MinInfluence |-> 0,
         RequiredZone |-> <<"centro">>,
         Options |-> << [ID |-> "opt_001_a", RequiredAttribute |-> "carisma",
                         DifficultyLevel |-> 14,
                         SuccessOutcome |-> MkOutcome(15, -10, 0, 5),
                         FailureOutcome |-> MkOutcome(5, -10, 0, 10)],
                        [ID |-> "opt_001_b", RequiredAttribute |-> "moralidade",
                         DifficultyLevel |-> 5,
                         SuccessOutcome |-> MkOutcome(0, 30, -2, -15),
                         FailureOutcome |-> MkOutcome(0, 0, 0, 0)] >>],
      evento_002 |->
        [ID |-> "evento_002", MinXP |-> 20, MinMoney |-> 0, MinInfluence |-> 0,
         RequiredZone |-> <<>>,
         Options |-> << [ID |-> "opt_002_a", RequiredAttribute |-> "rede",
                         DifficultyLevel |-> 30,
                         SuccessOutcome |-> MkOutcome(40, 0, 10, 0),
                         FailureOutcome |-> MkOutcome(0, -20, 0, 50)],
                        [ID |-> "opt_002_b", RequiredAttribute |-> "",
                         DifficultyLevel |-> 10,
                         SuccessOutcome |-> MkOutcome(3, 3, 3, -5),
                         FailureOutcome |-> MkOutcome(-3, -3, -3, 5)] >>] ]

EventIDs == DOMAIN Events

(* Identifiers a caller may pass: the catalog's and one unknown. *)
CharacterArgs == CharacterIDs \cup {"non_existent_character"}
ActionArgs == ActionIDs \cup {"invalid_action"}
EventArgs == EventIDs \cup {"non_existent_event"}
OptionArgs == {"opt_001_a", "opt_001_b", "opt_002_a", "opt_002_b"}
ZoneArgs == ZoneIDs \cup {"zona_oeste"}
SubZoneArgs == {"lapa", "porto_maravilha", "copacabana"}
StatusArgs == {"active", "sleeping", "autopilot", "banned"}
Letters == {"a", "b", "c", "d", "z"}

(***************************************************************************)
(* Helpers.                                                                *)
(***************************************************************************)
Range(s) == {s[i] : i \in DOMAIN s}

(* Go's int(float64) conversion truncates toward zero. *)
Trunc(n, d) == IF n >= 0 THEN n \div d ELSE -((-n) \div d)

(* The float64 factor 1 + float64(pct)/100.0 is not the real number
   1 + pct/100: Float64Error(pct) is the real number minus the factor, in
   units of 2^-52 / 100, for the percentages of the catalog (1 + 1.3 is the
   double 2.2999999999999998, below 2.3 by 0.8 * 2^-52). *)
Float64Error(pct) ==
    CASE pct = 2 -> -8 [] pct = 3 -> -12 [] pct = 4 -> -16 [] pct = 5 -> -20
      [] pct = 120 -> -80 [] pct = 130 -> 80 [] OTHER -> 0

(* The largest power of two below n (n > 1): the doubles just below n are
   Pow2Below(n) * 2^-52 apart. *)
Pow2Below(n) == CHOOSE q \in {2^k : k \in 0..30} : q < n /\ n <= 2 * q

(* ScaleByPercent in exact arithmetic, without the rounding of float64. *)
ScaleByPercent_Exact(x, pct) == Trunc(x * (100 + pct), 100)

(* int(float64(x) * (1 + float64(pct)/100.0)): the product is rounded to the
   nearest double and then truncated toward zero.  When x * (100 + pct) / 100
   is an integer n and the factor is below the real one by more than half the
   distance between the doubles just below n, the product is a double below n
   and the conversion yields n - 1 (50 * 2.3 is 114.99999999999999). *)
ScaleByPercent(x, pct) ==
    LET a == IF x >= 0 THEN x ELSE -x
        n == (a * (100 + pct)) \div 100
        below == /\ (a * (100 + pct)) % 100 = 0
                 /\ n > 1
                 /\ Float64Error(pct) > 0
                 /\ 2 * a * Float64Error(pct) > 100 * Pow2Below(n)
        m == IF below THEN n - 1 ELSE n
    IN IF x >= 0 THEN m ELSE -m

(* int(float64(x) * 1.2) *)
ScaleFavorite(x) == Trunc(x * FavoritePercent, 100)

(* uuid.New().String(): a fresh identifier, distinct from every phone number *)
NewPlayerID(phoneNumber) == "uuid-" \o phoneNumber

(* The switch on the attribute name in PerformAction and ProcessEventChoice. *)
AttributeValue(character, attribute) ==
    CASE attribute = "carisma"      -> character.Carisma
      [] attribute = "proficiencia" -> character.Proficiencia
      [] attribute = "rede"         -> character.Rede
      [] attribute = "moralidade"   -> character.Moralidade
      [] attribute = "resiliencia"  -> character.Resiliencia
      [] OTHER                      -> 0

(* ClampStress without its upper bound. *)
ClampStress_NoUpperBound(s) == IF s < StressMin THEN StressMin ELSE s

(* The stress clamp of PerformAction and ProcessEventChoice. *)
ClampStress(s) == IF s < StressMin THEN StressMin ELSE IF s > StressMax THEN StressMax ELSE s

(* for _, sz := range zone.SubZones { if sz.ID == id ... break }: index of the
   first match, 0 when there is none. *)
FindSubZone(zone, subZoneID) ==
    LET hits == {i \in DOMAIN zone.SubZones : zone.SubZones[i].ID = subZoneID}
    IN IF hits = {} THEN 0 ELSE CHOOSE i \in hits : \A j \in hits : i <= j

(***************************************************************************)
(* The store and the results of the operations.                            *)
(***************************************************************************)
EmptyStore == [p \in {} |-> 0]

Has(store, phoneNumber) == phoneNumber \in DOMAIN store

(* Go maps hold *Player: an assignment through the pointer updates the entry. *)
Put(store, phoneNumber, player) ==
    [p \in DOMAIN store \cup {phoneNumber} |-> IF p = phoneNumber THEN player ELSE store[p]]

(* What an operation's body computes: the error it returns ("" for none),
   the store it leaves in memory, the Outcome or Event it returns, and
   whether it reaches its call of saveState. *)
Result(err, store, outcome, event, saves) ==
    [err |-> err, store |-> store, outcome |-> outcome, event |-> event, saves |-> saves]

Fail(err, store) == Result(err, store, NoOutcome, NoEvent, FALSE)

(***************************************************************************)
(* GameManager.RegisterPlayer                                              *)
(***************************************************************************)
NewPlayer(phoneNumber, name) ==
    [ID |-> NewPlayerID(phoneNumber), PhoneNumber |-> phoneNumber, Name |-> name,
     XP |-> DefaultXP, Money |-> DefaultMoney, Influence |-> DefaultInfluence,
     Status |-> "active", Stress |-> 0,
     CurrentCharacter |-> NoCharacter, CurrentZone |-> NoZone, CurrentSubZone |-> NoZone,
     CurrentEvent |-> NoEvent, DecisionHistory |-> <<>>]

(* RegisterPlayer without the check for an existing player. *)
RegisterPlayerBody_Overwrites(store, phoneNumber, name) ==
    Result("", Put(store, phoneNumber, NewPlayer(phoneNumber, name)), NoOutcome, NoEvent, TRUE)

RegisterPlayerBody(store, phoneNumber, name) ==
    IF Has(store, phoneNumber) THEN Fail("player already registered", store)
    ELSE Result("", Put(store, phoneNumber, NewPlayer(phoneNumber, name)),
                NoOutcome, NoEvent, TRUE)

(***************************************************************************)
(* GameManager.SelectCharacter                                             *)
(***************************************************************************)
(* The switch on character.Type that sets the initial zone and subzone. *)
StartLocation(type) ==
    CASE type = "nerd_hacker" -> [zone |-> "copacabana", subZone |-> "praia"]
      [] type = "traficante"  -> [zone |-> "centro", subZone |-> "lapa"]
      [] type = "policial"    -> [zone |-> "centro", subZone |-> "delegacia"]
      [] type = "artista"     -> [zone |-> "ipanema", subZone |-> "praia"]
      [] type = "empresario"  -> [zone |-> "barra", subZone |-> "shopping"]
      [] OTHER                -> [zone |-> "centro", subZone |-> "lapa"]

(* SelectCharacterBody clearing the player's character and location before
   it looks the character up. *)
SelectCharacterBody_ClearsFirst(store, phoneNumber, characterID) ==
    IF ~Has(store, phoneNumber) THEN Fail("player not found", store)
    ELSE LET player == store[phoneNumber]
             cleared == [player EXCEPT !.CurrentCharacter = NoCharacter,
                                       !.CurrentZone = "", !.CurrentSubZone = ""]
             loc == StartLocation(IF characterID \in CharacterIDs
                                  THEN Characters[characterID].Type ELSE "")
             updated == [player EXCEPT !.CurrentCharacter = characterID,
                                       !.CurrentZone = loc.zone,
                                       !.CurrentSubZone = loc.subZone]
         IN IF characterID \notin CharacterIDs
            THEN Fail("character not found", Put(store, phoneNumber, cleared))
            ELSE Result("", Put(store, phoneNumber, updated), NoOutcome, NoEvent, TRUE)

SelectCharacterBody(store, phoneNumber, characterID) ==
    IF ~Has(store, phoneNumber) THEN Fail("player not found", store)
    ELSE IF characterID \notin CharacterIDs THEN Fail("character not found", store)
    ELSE LET player == store[phoneNumber]
             loc == StartLocation(Characters[characterID].Type)
             updated == [player EXCEPT !.CurrentCharacter = characterID,
                                       !.CurrentZone = loc.zone,
                                       !.CurrentSubZone = loc.subZone]
         IN Result("", Put(store, phoneNumber, updated), NoOutcome, NoEvent, TRUE)

(***************************************************************************)
(* GameManager.PerformAction                                               *)
(***************************************************************************)
(* ScaledOutcome scaling StressChange like the other three deltas. *)
ScaledOutcome_ScalesStress(character, action, subZone) ==
    LET attributeValue == AttributeValue(character, action.BonusAttribute)
        base == action.BaseOutcome
        isFavorite == action.ID \in Range(character.FavoriteActions)
        Chain(x) == LET a == ScaleByPercent(x, attributeValue)
                        z == ScaleByPercent(a, subZone.RewardMultiplier)
                    IN IF isFavorite THEN ScaleFavorite(z) ELSE z
    IN [base EXCEPT !.XPChange = Chain(base.XPChange),
                    !.MoneyChange = Chain(base.MoneyChange),
                    !.InfluenceChange = Chain(base.InfluenceChange),
                    !.StressChange = Chain(base.StressChange)]

(* The Outcome of an action: BaseOutcome with xp, money and influence scaled
   by the attribute bonus, then the subzone multiplier, then the favourite
   bonus, truncating after each step; StressChange is copied unscaled. *)
ScaledOutcome(character, action, subZone) ==
    LET attributeValue == AttributeValue(character, action.BonusAttribute)
        base == action.BaseOutcome
        isFavorite == action.ID \in Range(character.FavoriteActions)
        Chain(x) == LET a == ScaleByPercent(x, attributeValue)
                        z == ScaleByPercent(a, subZone.RewardMultiplier)
                    IN IF isFavorite THEN ScaleFavorite(z) ELSE z
    IN [base EXCEPT !.XPChange = Chain(base.XPChange),
                    !.MoneyChange = Chain(base.MoneyChange),
                    !.InfluenceChange = Chain(base.InfluenceChange)]

(* MkDecision leaving StressChange at its zero value. *)
MkDecision_NoStress(eventID, choice, outcome) ==
    [EventID |-> eventID, Choice |-> choice,
     XPChange |-> outcome.XPChange, MoneyChange |-> outcome.MoneyChange,
     InfluenceChange |-> outcome.InfluenceChange, StressChange |-> 0]

(* types.Decision{...} as built by PerformAction and ProcessEventChoice. *)
MkDecision(eventID, choice, outcome) ==
    [EventID |-> eventID, Choice |-> choice,
     XPChange |-> outcome.XPChange, MoneyChange |-> outcome.MoneyChange,
     InfluenceChange |-> outcome.InfluenceChange, StressChange |-> outcome.StressChange]

(* ApplyDeltas adding the money delta to Influence. *)
ApplyDeltas_WrongInfluence(player, outcome) ==
    [player EXCEPT !.XP = @ + outcome.XPChange,
                   !.Money = @ + outcome.MoneyChange,
                   !.Influence = @ + outcome.MoneyChange,
                   !.Stress = ClampStress(@ + outcome.StressChange)]

(* "Apply outcome to player" and "Ensure stress stays within bounds". *)
ApplyDeltas(player, outcome) ==
    [player EXCEPT !.XP = @ + outcome.XPChange,
                   !.Money = @ + outcome.MoneyChange,
                   !.Influence = @ + outcome.InfluenceChange,
                   !.Stress = ClampStress(@ + outcome.StressChange)]

(* RecordDecision assigning a one-element slice instead of appending. *)
RecordDecision_Overwrite(player, decision) ==
    [player EXCEPT !.DecisionHistory = <<decision>>]

(* player.DecisionHistory = append(player.DecisionHistory, decision) *)
RecordDecision(player, decision) ==
    [player EXCEPT !.DecisionHistory = Append(@, decision)]

PerformActionBody(store, phoneNumber, actionID) ==
    IF ~Has(store, phoneNumber) THEN Fail("player not found", store)
    ELSE LET player == store[phoneNumber] IN
    IF player.CurrentCharacter = NoCharacter THEN Fail("player has no character selected", store)
    ELSE IF actionID \notin ActionIDs THEN Fail("action not found", store)
    ELSE IF player.CurrentZone \notin ZoneIDs THEN Fail("invalid player zone", store)
    ELSE LET zone == Zones[player.CurrentZone]
             idx == FindSubZone(zone, player.CurrentSubZone) IN
    IF idx = 0 THEN Fail("invalid player subzone", store)
    ELSE LET currentSubZone == zone.SubZones[idx] IN
    IF actionID \notin Range(currentSubZone.AvailableActions)
    THEN Fail("action not available in current location", store)
    ELSE LET outcome == ScaledOutcome(Characters[player.CurrentCharacter],
                                      Actions[actionID], currentSubZone)
             decision == MkDecision("action_" \o actionID, actionID, outcome)
             updated == RecordDecision(ApplyDeltas(player, outcome), decision)
         IN Result("", Put(store, phoneNumber, updated), outcome, NoEvent, TRUE)

(***************************************************************************)
(* GameManager.GenerateEvent and GameManager.TriggerRandomEvent            *)
(***************************************************************************)
(* EligibleEvents without the check of the zone requirement. *)
EligibleEvents_IgnoresZone(player) ==
    {e \in EventIDs :
        ~(player.XP < Events[e].MinXP \/ player.Money < Events[e].MinMoney
            \/ player.Influence < Events[e].MinInfluence)}

(* The eligibility filter of GenerateEvent. *)
EligibleEvents(player) ==
    {e \in EventIDs :
        /\ ~(player.XP < Events[e].MinXP \/ player.Money < Events[e].MinMoney
               \/ player.Influence < Events[e].MinInfluence)
        /\ (Len(Events[e].RequiredZone) > 0
               => player.CurrentZone \in Range(Events[e].RequiredZone))}

(* GenerateEvent returns eligibleEvents[rand.Intn(len)]: `pick` is the event
   at the drawn index.  Its only write is player.LastEventAt. *)
GenerateEventBody(store, phoneNumber, pick) ==
    IF ~Has(store, phoneNumber) THEN Fail("player not found", store)
    ELSE LET player == store[phoneNumber] IN
    IF player.CurrentCharacter = NoCharacter THEN Fail("player has no character selected", store)
    ELSE IF EligibleEvents(player) = {} THEN Fail("no eligible events found for player", store)
    ELSE Result("", store, NoOutcome, pick, TRUE)

GenerateEventPicks(store, phoneNumber) ==
    IF Has(store, phoneNumber) /\ EligibleEvents(store[phoneNumber]) # {}
    THEN EligibleEvents(store[phoneNumber]) ELSE {NoEvent}

(* TriggerRandomEvent looks the player up by Player.ID, not by map key. *)
PlayersByID(store, playerID) == {p \in DOMAIN store : store[p].ID = playerID}

(* The filter of TriggerRandomEvent: the events naming the player's zone. *)
AvailableEvents(player) ==
    {e \in EventIDs : player.CurrentZone \in Range(Events[e].RequiredZone)}

TriggerRandomEventBody(store, playerID, pick) ==
    IF PlayersByID(store, playerID) = {} THEN Fail("player not found", store)
    ELSE LET player == store[CHOOSE p \in PlayersByID(store, playerID) : TRUE] IN
    IF AvailableEvents(player) = {} THEN Fail("no events available for current zone", store)
    ELSE Result("", store, NoOutcome, pick, FALSE)

TriggerRandomEventPicks(store, playerID) ==
    IF PlayersByID(store, playerID) = {} THEN {NoEvent}
    ELSE LET player == store[CHOOSE p \in PlayersByID(store, playerID) : TRUE]
         IN IF AvailableEvents(player) = {} THEN {NoEvent} ELSE AvailableEvents(player)

(***************************************************************************)
(* EventSystem.triggerEvents, GameManager.SendMessage                      *)
(*                                                                         *)
(* internal/game/utils.go holds two versions of triggerEvents.  They       *)
(* differ in the field of the Player they pass to TriggerRandomEvent and   *)
(* to SendMessage, player.ID (lines 174, 198) or player.PhoneNumber (lines *)
(* 436, 456), and the version that passes player.ID also skips a player    *)
(* whose last event is more recent than the event interval (line 166).     *)
(***************************************************************************)
Keys == {"ID", "PhoneNumber"}

PlayerKey(player, key) == IF key = "ID" THEN player.ID ELSE player.PhoneNumber

(* GetAllPlayers: the players in the order of one iteration over the map,
   which Go leaves unspecified. *)
GetAllPlayers(store) ==
    {order \in [1..Cardinality(DOMAIN store) -> DOMAIN store] :
        \A i, j \in DOMAIN order : order[i] = order[j] => i = j}

(* The status check without its condition. *)
IsActive_Always(player) == TRUE

(* if player.Status != "active" { continue } *)
IsActive(player) == player.Status = "active"

(* The draws of Roll(100) that are tried: the two faces around the
   probability. *)
DrawFaces == {RandomEventProbability, RandomEventProbability + 1}

(* The results of messageSender.SendMessage. *)
SendResults == {"ok", "error"}

(* SendMessage, lines 818-834: the player whose ID is playerID, else the
   player registered under playerID; the address the message is sent to is
   that player's PhoneNumber ("" when there is no such player). *)
SendMessageAddress(store, playerID) ==
    IF PlayersByID(store, playerID) # {}
    THEN store[CHOOSE p \in PlayersByID(store, playerID) : TRUE].PhoneNumber
    ELSE IF Has(store, playerID) THEN store[playerID].PhoneNumber
    ELSE ""

(* What one iteration of the loop of triggerEvents did for a player: the
   step it ended at, the draw, the events TriggerRandomEvent found
   available, the event it returned and the address the notification was
   handed to the message sender for. *)
Entry(phone, step, roll, available, event, to) ==
    [phone |-> phone, step |-> step, roll |-> roll, available |-> available,
     event |-> event, to |-> to]

(* One iteration of the loop of triggerEvents, for the player registered
   under phone. *)
TickPlayer(store, key, phone, recent, roll, pick, sendResult) ==
    LET player == store[phone]
        id == PlayerKey(player, key)
    IN IF ~IsActive(player) THEN Entry(phone, "inactive", 0, {}, NoEvent, "")
       ELSE IF recent THEN Entry(phone, "recent", 0, {}, NoEvent, "")
       ELSE IF ~(roll <= RandomEventProbability)
            THEN Entry(phone, "not_triggered", roll, {}, NoEvent, "")
       ELSE LET r == TriggerRandomEventBody(store, id, pick)
                available == IF PlayersByID(store, id) = {} THEN {}
                             ELSE AvailableEvents(
                                      store[CHOOSE p \in PlayersByID(store, id) : TRUE])
            IN IF r.err # "" THEN Entry(phone, "trigger_failed", roll, available, NoEvent, "")
               ELSE LET to == SendMessageAddress(store, id)
                    IN IF to = "" \/ sendResult # "ok"
                       THEN Entry(phone, "send_failed", roll, available, r.event, to)
                       ELSE Entry(phone, "sent", roll, available, r.event, to)

(* The iterations triggerEvents can make for a player. *)
TickOutcomes(store, key, phone) ==
    {TickPlayer(store, key, phone, recent, roll, pick, sendResult) :
        recent \in IF key = "ID" THEN BOOLEAN ELSE {FALSE},
        roll \in DrawFaces,
        pick \in TriggerRandomEventPicks(store, PlayerKey(store[phone], key)),
        sendResult \in SendResults}

Failed(entry) == entry.step \in {"trigger_failed", "send_failed"}

(* The loop of triggerEvents leaving at the first failure. *)
RangeLoop_ReturnsOnFailure(entries) ==
    LET failures == {i \in DOMAIN entries : Failed(entries[i])}
    IN IF failures = {} THEN entries
       ELSE SubSeq(entries, 1, CHOOSE i \in failures : \A j \in failures : i <= j)

(* for _, player := range players { ... }: a failure is logged and the loop
   goes on with the next player, to the last one. *)
RangeLoop(entries) == SubSeq(entries, 1, Len(entries))

(***************************************************************************)
(* GameManager.ProcessEventChoice                                          *)
(***************************************************************************)
(* FindOption falling back to the first option for an unknown identifier. *)
FindOption_FirstByDefault(event, optionID) ==
    LET hits == {i \in DOMAIN event.Options : event.Options[i].ID = optionID}
    IN IF hits = {} THEN 1 ELSE CHOOSE i \in hits : \A j \in hits : i <= j

(* The loop over event.Options: the index of the first option with the
   identifier, 0 for selectedOption == nil. *)
FindOption(event, optionID) ==
    LET hits == {i \in DOMAIN event.Options : event.Options[i].ID = optionID}
    IN IF hits = {} THEN 0 ELSE CHOOSE i \in hits : \A j \in hits : i <= j

(* The check with > in place of >=. *)
CheckSucceeds_Strict(die, attributeValue, difficultyLevel) ==
    die + attributeValue > difficultyLevel

(* roll := rand.Intn(20) + 1 + attributeValue; success iff roll >= DifficultyLevel *)
CheckSucceeds(die, attributeValue, difficultyLevel) == die + attributeValue >= difficultyLevel

(* "Update location if specified" *)
ApplyLocation(player, outcome) ==
    [player EXCEPT !.CurrentZone = IF outcome.NewZone # "" THEN outcome.NewZone ELSE @,
                   !.CurrentSubZone = IF outcome.NewSubZone # "" THEN outcome.NewSubZone ELSE @]

(* `die` is the value of rand.Intn(20) + 1. *)
ProcessEventChoiceBody(store, phoneNumber, eventID, optionID, die) ==
    IF ~Has(store, phoneNumber) THEN Fail("player not found", store)
    ELSE LET player == store[phoneNumber] IN
    IF player.CurrentCharacter = NoCharacter THEN Fail("player has no character selected", store)
    ELSE IF eventID \notin EventIDs THEN Fail("event not found", store)
    ELSE LET idx == FindOption(Events[eventID], optionID) IN
    IF idx = 0 THEN Fail("option not found", store)
    ELSE LET selectedOption == Events[eventID].Options[idx]
             attributeValue == AttributeValue(Characters[player.CurrentCharacter],
                                              selectedOption.RequiredAttribute)
             outcome == IF CheckSucceeds(die, attributeValue, selectedOption.DifficultyLevel)
                        THEN selectedOption.SuccessOutcome
                        ELSE selectedOption.FailureOutcome
             decision == MkDecision(eventID, optionID, outcome)
             updated == RecordDecision(ApplyLocation(ApplyDeltas(player, outcome), outcome),
                                       decision)
         IN Result("", Put(store, phoneNumber, updated), outcome, NoEvent, TRUE)

(***************************************************************************)
(* GameManager.SetPlayerStatus and GameManager.MovePlayer                  *)
(***************************************************************************)
(* ValidStatus accepting every string. *)
ValidStatus_AcceptsAny(status) == status = status

(* The negation of status != "active" && status != "sleeping" &&
   status != "autopilot". *)
ValidStatus(status) == ~(status # "active" /\ status # "sleeping" /\ status # "autopilot")

(* SetPlayerStatusBody assigning the status before it validates it. *)
SetPlayerStatusBody_WritesFirst(store, phoneNumber, status) ==
    IF ~Has(store, phoneNumber) THEN Fail("player not found", store)
    ELSE LET written == Put(store, phoneNumber, [store[phoneNumber] EXCEPT !.Status = status])
         IN IF ~ValidStatus(status) THEN Fail("invalid status", written)
            ELSE Result("", written, NoOutcome, NoEvent, TRUE)

SetPlayerStatusBody(store, phoneNumber, status) ==
    IF ~Has(store, phoneNumber) THEN Fail("player not found", store)
    ELSE IF ~ValidStatus(status) THEN Fail("invalid status", store)
    ELSE Result("", Put(store, phoneNumber, [store[phoneNumber] EXCEPT !.Status = status]),
                NoOutcome, NoEvent, TRUE)

(* fmt.Errorf("zone not found: %s", zoneID) *)
ZoneNotFound(zoneID) == "zone not found: " \o zoneID

(* fmt.Errorf("subzone not found: %s", subZoneID) *)
SubZoneNotFound(subZoneID) == "subzone not found: " \o subZoneID

(* MovePlayerBody looking for the subzone in every zone of the catalog. *)
MovePlayerBody_AnyZone(store, playerID, zoneID, subZoneID) ==
    IF ~Has(store, playerID) THEN Fail("player not found", store)
    ELSE IF zoneID \notin ZoneIDs THEN Fail(ZoneNotFound(zoneID), store)
    ELSE IF \A z \in ZoneIDs : FindSubZone(Zones[z], subZoneID) = 0
    THEN Fail(SubZoneNotFound(subZoneID), store)
    ELSE Result("", Put(store, playerID, [store[playerID] EXCEPT !.CurrentZone = zoneID,
                                                                 !.CurrentSubZone = subZoneID]),
                NoOutcome, NoEvent, TRUE)

MovePlayerBody(store, playerID, zoneID, subZoneID) ==
    IF ~Has(store, playerID) THEN Fail("player not found", store)
    ELSE IF zoneID \notin ZoneIDs THEN Fail(ZoneNotFound(zoneID), store)
    ELSE IF FindSubZone(Zones[zoneID], subZoneID) = 0 THEN Fail(SubZoneNotFound(subZoneID), store)
    ELSE Result("", Put(store, playerID, [store[playerID] EXCEPT !.CurrentZone = zoneID,
                                                                 !.CurrentSubZone = subZoneID]),
                NoOutcome, NoEvent, TRUE)

(***************************************************************************)
(* ClientManager.handleEventResponseCommand                                *)
(***************************************************************************)
(* The switch from the command letter to the option index (0-based; -1 for
   any other letter). *)
OptionIndex(letter) ==
    CASE letter = "a" -> 0
      [] letter = "b" -> 1
      [] letter = "c" -> 2
      [] letter = "d" -> 3
      [] OTHER        -> -1

(* The event a player's CurrentEvent points to. *)
PendingOptions(player) ==
    IF player.CurrentEvent \in EventIDs THEN Events[player.CurrentEvent].Options ELSE <<>>

(* ClearCurrentEvent without the assignment. *)
ClearCurrentEvent_Skipped(store, phoneNumber) == store

(* player.CurrentEvent = nil, written through the pointer GetPlayer returned. *)
ClearCurrentEvent(store, phoneNumber) ==
    Put(store, phoneNumber, [store[phoneNumber] EXCEPT !.CurrentEvent = NoEvent])

(* The handler up to its call of ProcessEventChoice: the rejection it returns
   ("" for none), and the event and option it passes on. *)
EventResponseCheck(store, sender, letter) ==
    IF ~Has(store, sender) THEN [err |-> "player not found", eventID |-> "", optionID |-> ""]
    ELSE LET player == store[sender] IN
    IF player.CurrentCharacter = NoCharacter
    THEN [err |-> "no character", eventID |-> "", optionID |-> ""]
    ELSE IF player.CurrentEvent = NoEvent
    THEN [err |-> "no pending event", eventID |-> "", optionID |-> ""]
    ELSE IF OptionIndex(letter) = -1
    THEN [err |-> "invalid option", eventID |-> "", optionID |-> ""]
    ELSE IF OptionIndex(letter) >= Len(PendingOptions(player))
    THEN [err |-> "option not available", eventID |-> "", optionID |-> ""]
    ELSE [err |-> "", eventID |-> player.CurrentEvent,
          optionID |-> PendingOptions(player)[OptionIndex(letter) + 1].ID]

handleEventResponseCommandBody(store, sender, letter, die) ==
    LET check == EventResponseCheck(store, sender, letter) IN
    IF check.err # "" THEN Fail(check.err, store)
    ELSE ProcessEventChoiceBody(ClearCurrentEvent(store, sender), sender,
                                check.eventID, check.optionID, die)

(***************************************************************************)
(* GameStateStorage.SaveGameState and GameManager.saveState                *)
(***************************************************************************)
(* The JSON value of a nil pointer, and of a pointer to a value encoded as
   object: null, or the object. *)
JSONNull == <<>>

JSONPointer(object) == <<object>>

(* json.Marshal of a types.Character: one member per exported field, named
   by its json tag. *)
MarshalCharacter(character) ==
    [id |-> character.ID, type |-> character.Type,
     carisma |-> character.Carisma, proficiencia |-> character.Proficiencia,
     rede |-> character.Rede, moralidade |-> character.Moralidade,
     resiliencia |-> character.Resiliencia,
     favorite_actions |-> character.FavoriteActions]

(* json.Marshal of a types.Event. *)
MarshalEvent(event) ==
    [id |-> event.ID, min_xp |-> event.MinXP, min_money |-> event.MinMoney,
     min_influence |-> event.MinInfluence, required_zone |-> event.RequiredZone,
     options |-> [i \in DOMAIN event.Options |-> event.Options[i].ID]]

(* json.Marshal of a types.Decision. *)
MarshalDecision(decision) ==
    [event_id |-> decision.EventID, choice |-> decision.Choice,
     xp_change |-> decision.XPChange, money_change |-> decision.MoneyChange,
     influence_change |-> decision.InfluenceChange,
     stress_change |-> decision.StressChange]

(* json.Marshal of a *types.Player: the pointers CurrentCharacter and
   CurrentEvent are written as the object they point to or as null, the
   slice DecisionHistory as an array in the order of the slice. *)
MarshalPlayer(player) ==
    [id |-> player.ID, phone_number |-> player.PhoneNumber, name |-> player.Name,
     xp |-> player.XP, money |-> player.Money, influence |-> player.Influence,
     status |-> player.Status, stress |-> player.Stress,
     current_character |-> IF player.CurrentCharacter = NoCharacter THEN JSONNull
                           ELSE JSONPointer(MarshalCharacter(Characters[player.CurrentCharacter])),
     current_zone |-> player.CurrentZone,
     current_sub_zone |-> player.CurrentSubZone,
     current_event |-> IF player.CurrentEvent = NoEvent THEN JSONNull
                       ELSE JSONPointer(MarshalEvent(Events[player.CurrentEvent])),
     decision_history |-> [i \in DOMAIN player.DecisionHistory |->
                              MarshalDecision(player.DecisionHistory[i])]]

(* json.MarshalIndent(state, "", "  "): the member "players", an object with
   one member per phone number. *)
MarshalPlayers(store) == [p \in DOMAIN store |-> MarshalPlayer(store[p])]

(* json.Unmarshal into a types.Decision. *)
UnmarshalDecision(object) ==
    [EventID |-> object.event_id, Choice |-> object.choice,
     XPChange |-> object.xp_change, MoneyChange |-> object.money_change,
     InfluenceChange |-> object.influence_change,
     StressChange |-> object.stress_change]

(* UnmarshalPlayer reading the subzone from the member "current_zone". *)
UnmarshalPlayer_WrongTag(object) ==
    [ID |-> object.id, PhoneNumber |-> object.phone_number, Name |-> object.name,
     XP |-> object.xp, Money |-> object.money, Influence |-> object.influence,
     Status |-> object.status, Stress |-> object.stress,
     CurrentCharacter |-> IF object.current_character = JSONNull THEN NoCharacter
                          ELSE object.current_character[1].id,
     CurrentZone |-> object.current_zone,
     CurrentSubZone |-> object.current_zone,
     CurrentEvent |-> IF object.current_event = JSONNull THEN NoEvent
                      ELSE object.current_event[1].id,
     DecisionHistory |-> [i \in DOMAIN object.decision_history |->
                             UnmarshalDecision(object.decision_history[i])]]

(* json.Unmarshal into a types.Player: each member is stored in the field
   with that json tag; null leaves a pointer nil, an object allocates the
   Character or Event it describes (named here by its identifier); an array
   fills the slice in the order of the array. *)
UnmarshalPlayer(object) ==
    [ID |-> object.id, PhoneNumber |-> object.phone_number, Name |-> object.name,
     XP |-> object.xp, Money |-> object.money, Influence |-> object.influence,
     Status |-> object.status, Stress |-> object.stress,
     CurrentCharacter |-> IF object.current_character = JSONNull THEN NoCharacter
                          ELSE object.current_character[1].id,
     CurrentZone |-> object.current_zone,
     CurrentSubZone |-> object.current_sub_zone,
     CurrentEvent |-> IF object.current_event = JSONNull THEN NoEvent
                      ELSE object.current_event[1].id,
     DecisionHistory |-> [i \in DOMAIN object.decision_history |->
                             UnmarshalDecision(object.decision_history[i])]]

(* json.Unmarshal(data, &state): the map state.Players. *)
UnmarshalPlayers(members) == [p \in DOMAIN members |-> UnmarshalPlayer(members[p])]

SaveResults == {"ok", "mkdir_error", "write_error"}

(* "ok": the document holds the store.  "mkdir_error": os.MkdirAll failed,
   nothing was written.  "write_error": os.WriteFile failed after it had
   truncated the file, which now holds no complete document. *)
SaveGameState(document, store, result) ==
    CASE result = "ok"          -> [status |-> "complete", players |-> MarshalPlayers(store)]
      [] result = "mkdir_error" -> document
      [] OTHER                  -> [status |-> "partial", players |-> MarshalPlayers(EmptyStore)]

(* GameStateStorage.LoadGameState as NewGameManager uses it: an empty store
   when the file does not exist, the players of the document when it parses,
   and the new empty state NewGameManager creates when LoadGameState returns
   an error. *)
LoadGameState(document) ==
    IF document.status = "complete" THEN UnmarshalPlayers(document.players)
    ELSE EmptyStore

(* SaveError reporting success whatever saveState returned. *)
SaveError_Ignored(result) == ""

(* if err := gm.saveState(); err != nil { return nil, fmt.Errorf(...) } *)
SaveError(result) == IF result = "ok" THEN "" ELSE "failed to save game state"

(***************************************************************************)
(* Initial state.  NewGameManager loads the document at ./data/             *)
(* game_state.json: an empty store when the file does not exist, otherwise  *)
(* whatever store the document holds.                                       *)
(***************************************************************************)
LoadedPlayer ==
    [NewPlayer("5521999999999", "Ana") EXCEPT !.CurrentCharacter = "estudante",
                                              !.CurrentZone = "centro",
                                              !.CurrentSubZone = "lapa",
                                              !.CurrentEvent = "evento_001"]

LoadedStore == Put(EmptyStore, "5521999999999", LoadedPlayer)

InitialDocuments == { [status |-> "absent", players |-> MarshalPlayers(EmptyStore)],
                      [status |-> "complete", players |-> MarshalPlayers(LoadedStore)] }

(* The goroutines that calls of Start can spawn: one per call. *)
LoopId(i) == "loop" \o ToString(i)

Loops == {LoopId(i) : i \in 1..MaxCalls}

NoLoop == [pc |-> "none", key |-> "", todo |-> <<>>, roll |-> 0, available |-> {},
           event |-> NoEvent]

(* NewEventSystem: a running ticker with an empty channel, an open stop
   channel and no tick loop. *)
NewEventSystem ==
    [stopChan |-> "open", tickC |-> 0, tickerStopped |-> FALSE,
     stopReturned |-> FALSE, panicked |-> FALSE,
     loop |-> [l \in Loops |-> NoLoop]]

NoReturn == [op |-> "none", phone |-> "", err |-> "", outcome |-> NoOutcome, event |-> NoEvent]

NoLocal == [op |-> "none", phone |-> "", arg1 |-> "", arg2 |-> "",
            outcome |-> NoOutcome, event |-> NoEvent, before |-> EmptyStore]

Init ==
    /\ disk \in InitialDocuments
    /\ players = LoadGameState(disk)
    /\ ret = NoReturn
    /\ calls = 0
    /\ pc = [w \in Workers |-> "idle"]
    /\ stateLock = [writer |-> NoWorker, readers |-> {}]
    /\ local = [w \in Workers |-> NoLocal]
    /\ es = NewEventSystem
    /\ tick = <<>>

(***************************************************************************)
(* Sequential calls: one call runs from entry to return with no other call  *)
(* in between.                                                              *)
(***************************************************************************)
(* What the caller gets back from an operation whose body computed r and
   whose saveState, if reached, ended with saveResult. *)
Returned(op, phone, r, saveResult) ==
    LET err == IF r.err # "" THEN r.err
               ELSE IF r.saves THEN SaveError(saveResult) ELSE ""
    IN [op |-> op, phone |-> phone, err |-> err,
        outcome |-> IF err = "" THEN r.outcome ELSE NoOutcome,
        event |-> IF err = "" THEN r.event ELSE NoEvent]

(* A call that is rejected returns an error and writes nothing. *)
Rejected(store, r) == r.err # "" /\ r.store = store

(* calls is the budget of a run: a call that changes the store or the
   document uses one unit, and a run is not followed beyond a rejected call,
   which leaves the store and the document as they were. *)
Call(op, phone, r, saveResult) ==
    /\ calls < MaxCalls
    /\ calls' = IF Rejected(players, r) THEN MaxCalls ELSE calls + 1
    /\ players' = r.store
    /\ disk' = IF r.saves THEN SaveGameState(disk, r.store, saveResult) ELSE disk
    /\ ret' = Returned(op, phone, r, saveResult)
    /\ UNCHANGED <<pc, stateLock, local, es, tick>>

(* The results saveState can have in an operation whose body computed r:
   it is called only when the body reaches it. *)
SavesFor(r) == IF r.saves THEN SaveResults ELSE {"ok"}

(* The draws of rand.Intn(20) + 1 that are tried for a check of
   attributeValue against difficultyLevel: the two ends of the die and the
   two faces around the threshold. *)
DieFaces(attributeValue, difficultyLevel) ==
    {1, DieSides, difficultyLevel - attributeValue - 1, difficultyLevel - attributeValue}
        \cap (1..DieSides)

(* The draws tried when player phoneNumber resolves optionID of eventID. *)
DiceFor(store, phoneNumber, eventID, optionID) ==
    IF /\ Has(store, phoneNumber)
       /\ store[phoneNumber].CurrentCharacter # NoCharacter
       /\ eventID \in EventIDs
       /\ FindOption(Events[eventID], optionID) # 0
    THEN LET option == Events[eventID].Options[FindOption(Events[eventID], optionID)]
         IN DieFaces(AttributeValue(Characters[store[phoneNumber].CurrentCharacter],
                                    option.RequiredAttribute),
                     option.DifficultyLevel)
    ELSE {1}

RegisterPlayer(phoneNumber, name) ==
    LET r == RegisterPlayerBody(players, phoneNumber, name)
    IN \E sr \in SavesFor(r) : Call("RegisterPlayer", phoneNumber, r, sr)

SelectCharacter(phoneNumber, characterID) ==
    LET r == SelectCharacterBody(players, phoneNumber, characterID)
    IN \E sr \in SavesFor(r) : Call("SelectCharacter", phoneNumber, r, sr)

PerformAction(phoneNumber, actionID) ==
    LET r == PerformActionBody(players, phoneNumber, actionID)
    IN \E sr \in SavesFor(r) : Call("PerformAction", phoneNumber, r, sr)

GenerateEvent(phoneNumber) ==
    \E pick \in GenerateEventPicks(players, phoneNumber) :
        LET r == GenerateEventBody(players, phoneNumber, pick)
        IN \E sr \in SavesFor(r) : Call("GenerateEvent", phoneNumber, r, sr)

TriggerRandomEvent(playerID) ==
    \E pick \in TriggerRandomEventPicks(players, playerID) :
        Call("TriggerRandomEvent", playerID, TriggerRandomEventBody(players, playerID, pick), "ok")

(* ProcessEventChoice when rand.Intn(20) + 1 is die. *)
ProcessEventChoiceRolled(phoneNumber, eventID, optionID, die) ==
    LET r == ProcessEventChoiceBody(players, phoneNumber, eventID, optionID, die)
    IN \E sr \in SavesFor(r) : Call("ProcessEventChoice", phoneNumber, r, sr)

ProcessEventChoice(phoneNumber, eventID, optionID) ==
    \E die \in DiceFor(players, phoneNumber, eventID, optionID) :
        ProcessEventChoiceRolled(phoneNumber, eventID, optionID, die)

SetPlayerStatus(phoneNumber, status) ==
    LET r == SetPlayerStatusBody(players, phoneNumber, status)
    IN \E sr \in SavesFor(r) : Call("SetPlayerStatus", phoneNumber, r, sr)

MovePlayer(playerID, zoneID, subZoneID) ==
    LET r == MovePlayerBody(players, playerID, zoneID, subZoneID)
    IN \E sr \in SavesFor(r) : Call("MovePlayer", playerID, r, sr)

handleEventResponseCommand(sender, letter) ==
    LET check == EventResponseCheck(players, sender, letter)
    IN \E die \in DiceFor(players, sender, check.eventID, check.optionID) :
        LET r == handleEventResponseCommandBody(players, sender, letter, die)
        IN \E sr \in SavesFor(r) : Call("handleEventResponseCommand", sender, r, sr)

(* One run of triggerEvents. *)
triggerEvents ==
    /\ calls < MaxCalls
    /\ calls' = calls + 1
    /\ \E key \in Keys, order \in GetAllPlayers(players) :
          \E entries \in [DOMAIN order -> UNION {TickOutcomes(players, key, p) : p \in DOMAIN players}] :
              /\ \A i \in DOMAIN order : entries[i] \in TickOutcomes(players, key, order[i])
              /\ tick' = RangeLoop(entries)
    /\ ret' = [NoReturn EXCEPT !.op = "triggerEvents"]
    /\ UNCHANGED <<players, disk, pc, stateLock, local, es>>

(* The identifiers the scheduler and the tests pass to TriggerRandomEvent. *)
PlayerIDArgs == Phones \cup {NewPlayerID(p) : p \in Phones}

Next ==
    \/ \E p \in Phones, n \in Names : RegisterPlayer(p, n)
    \/ \E p \in Phones, c \in CharacterArgs : SelectCharacter(p, c)
    \/ \E p \in Phones, a \in ActionArgs : PerformAction(p, a)
    \/ \E p \in Phones : GenerateEvent(p)
    \/ \E id \in PlayerIDArgs : TriggerRandomEvent(id)
    \/ \E p \in Phones, e \in EventArgs, o \in OptionArgs : ProcessEventChoice(p, e, o)
    \/ \E p \in Phones, st \in StatusArgs : SetPlayerStatus(p, st)
    \/ \E p \in Phones, z \in ZoneArgs, sz \in SubZoneArgs : MovePlayer(p, z, sz)
    \/ \E p \in Phones, l \in Letters : handleEventResponseCommand(p, l)
    \/ triggerEvents

Spec == Init /\ [][Next]_vars

(***************************************************************************)
(* Concurrent calls.  Each worker is a goroutine running one command at a   *)
(* time; a step is what the goroutine does between two points at which      *)
(* another goroutine can run and see a difference.                          *)
(*   idle        the worker is between calls                                *)
(*   flush       it holds gm.stateLock for writing, has run the body of a   *)
(*               locked operation and is about to call saveState            *)
(*   move_write  MovePlayer: GetPlayer has returned                         *)
(*   move_save   MovePlayer: the player's location is written               *)
(*   resp_clear  handleEventResponseCommand: the pending event is read      *)
(*   resp_call   handleEventResponseCommand: CurrentEvent is cleared        *)
(***************************************************************************)
LockFree == stateLock.writer = NoWorker /\ stateLock.readers = {}

(* stateLock.RLock() can be taken when no writer holds the lock. *)
CanRLock == stateLock.writer = NoWorker

Goto(w, position, frame) ==
    /\ pc' = [pc EXCEPT ![w] = position]
    /\ local' = [local EXCEPT ![w] = frame]

(* What a worker keeps while it runs an operation; before is the store as
   the body of a locked operation found it. *)
Frame(op, phone, arg1, arg2, r) ==
    [op |-> op, phone |-> phone, arg1 |-> arg1, arg2 |-> arg2,
     outcome |-> r.outcome, event |-> r.event, before |-> players]

(* A locked operation from stateLock.Lock() to its call of saveState, or to
   its return (defer Unlock) when it returns before saving. *)
Begin(w, op, phone, r) ==
    /\ pc[w] = "idle"
    /\ calls < MaxCalls
    /\ LockFree
    /\ calls' = calls + 1
    /\ players' = r.store
    /\ IF r.err = "" /\ r.saves
       THEN /\ stateLock' = [stateLock EXCEPT !.writer = w]
            /\ Goto(w, "flush", Frame(op, phone, "", "", r))
            /\ UNCHANGED <<disk, ret>>
       ELSE /\ ret' = Returned(op, phone, r, "ok")
            /\ UNCHANGED <<disk, stateLock, pc, local>>
    /\ UNCHANGED <<es, tick>>

(* saveState and the return of a locked operation; the deferred Unlock. *)
Flush(w) ==
    /\ pc[w] = "flush"
    /\ \E sr \in SaveResults :
        /\ disk' = SaveGameState(disk, players, sr)
        /\ ret' = Returned(local[w].op, local[w].phone,
                           Result("", players, local[w].outcome, local[w].event, TRUE), sr)
    /\ stateLock' = [stateLock EXCEPT !.writer = NoWorker]
    /\ Goto(w, "idle", NoLocal)
    /\ UNCHANGED <<players, calls, es, tick>>

CRegisterPlayer(w, phoneNumber, name) ==
    Begin(w, "RegisterPlayer", phoneNumber, RegisterPlayerBody(players, phoneNumber, name))

CSelectCharacter(w, phoneNumber, characterID) ==
    Begin(w, "SelectCharacter", phoneNumber,
          SelectCharacterBody(players, phoneNumber, characterID))

CPerformAction(w, phoneNumber, actionID) ==
    Begin(w, "PerformAction", phoneNumber, PerformActionBody(players, phoneNumber, actionID))

CSetPlayerStatus(w, phoneNumber, status) ==
    Begin(w, "SetPlayerStatus", phoneNumber, SetPlayerStatusBody(players, phoneNumber, status))

CGenerateEvent(w, phoneNumber) ==
    \E pick \in GenerateEventPicks(players, phoneNumber) :
        Begin(w, "GenerateEvent", phoneNumber, GenerateEventBody(players, phoneNumber, pick))

CProcessEventChoice(w, phoneNumber, eventID, optionID) ==
    \E die \in DiceFor(players, phoneNumber, eventID, optionID) :
        Begin(w, "ProcessEventChoice", phoneNumber,
              ProcessEventChoiceBody(players, phoneNumber, eventID, optionID, die))

(* MovePlayer, line 705: player, err := gm.GetPlayer(playerID), which takes
   and releases the read lock. *)
MoveGetPlayer(w, playerID, zoneID, subZoneID) ==
    /\ pc[w] = "idle"
    /\ calls < MaxCalls
    /\ CanRLock
    /\ calls' = calls + 1
    /\ IF Has(players, playerID)
       THEN /\ Goto(w, "move_write",
                    [NoLocal EXCEPT !.op = "MovePlayer", !.phone = playerID,
                                    !.arg1 = zoneID, !.arg2 = subZoneID])
            /\ UNCHANGED ret
       ELSE /\ ret' = Returned("MovePlayer", playerID, Fail("player not found", players), "ok")
            /\ UNCHANGED <<pc, local>>
    /\ UNCHANGED <<players, disk, stateLock, es, tick>>

(* MovePlayer, lines 710-728: the zone and subzone lookups and the two
   assignments to the Player, made with no lock held. *)
MoveWrite(w) ==
    /\ pc[w] = "move_write"
    /\ LET r == MovePlayerBody(players, local[w].phone, local[w].arg1, local[w].arg2)
       IN /\ players' = r.store
          /\ IF r.err = ""
             THEN /\ Goto(w, "move_save", local[w])
                  /\ UNCHANGED ret
             ELSE /\ ret' = Returned("MovePlayer", local[w].phone, r, "ok")
                  /\ Goto(w, "idle", NoLocal)
    /\ UNCHANGED <<disk, calls, stateLock, es, tick>>

(* The fields of types.Player that the model keeps. *)
PlayerFields ==
    {"ID", "PhoneNumber", "Name", "XP", "Money", "Influence", "Status", "Stress",
     "CurrentCharacter", "CurrentZone", "CurrentSubZone", "CurrentEvent", "DecisionHistory"}

(* A Player read field by field while another goroutine assigns its fields:
   the fields in taken are read after their assignment, the others before. *)
TornPlayer(old, new, taken) ==
    [f \in PlayerFields |-> IF f \in taken THEN new[f] ELSE old[f]]

ChangedFields(before, after) ==
    {f \in PlayerFields :
        \E p \in DOMAIN before \cap DOMAIN after : before[p][f] # after[p][f]}

(* What json.MarshalIndent can read of the store while the body of a locked
   operation takes it from before to after. *)
TornStores(before, after) ==
    { [p \in DOMAIN after |->
          IF p \in DOMAIN before THEN TornPlayer(before[p], after[p], taken)
          ELSE after[p]] : taken \in SUBSET ChangedFields(before, after) }

(* The stores that a saveState called with no lock held can marshal: the
   store as it is, or, when another goroutine is inside a locked operation,
   any mixture of the store before and after that operation's writes (the
   read of gm.state races with them). *)
UnlockedReads(w) ==
    {players} \cup UNION { TornStores(local[v].before, players) :
                              v \in {u \in Workers \ {w} : pc[u] = "flush"} }

(* MovePlayer, lines 730-735: saveState, with no lock held. *)
MoveSave(w) ==
    /\ pc[w] = "move_save"
    /\ \E sr \in SaveResults, read \in UnlockedReads(w) :
        /\ disk' = SaveGameState(disk, read, sr)
        /\ ret' = Returned("MovePlayer", local[w].phone,
                           Result("", players, NoOutcome, NoEvent, TRUE), sr)
    /\ Goto(w, "idle", NoLocal)
    /\ UNCHANGED <<players, calls, stateLock, es, tick>>

(* handleEventResponseCommand, lines 889-931: GetPlayer and the reads of
   player.CurrentCharacter and player.CurrentEvent through the pointer it
   returned. *)
RespRead(w, sender, letter) ==
    /\ pc[w] = "idle"
    /\ calls < MaxCalls
    /\ CanRLock
    /\ calls' = calls + 1
    /\ LET check == EventResponseCheck(players, sender, letter)
       IN IF check.err = ""
          THEN /\ Goto(w, "resp_clear",
                       [NoLocal EXCEPT !.op = "handleEventResponseCommand", !.phone = sender,
                                       !.arg1 = check.eventID, !.arg2 = check.optionID])
               /\ UNCHANGED ret
          ELSE /\ ret' = Returned("handleEventResponseCommand", sender,
                                  Fail(check.err, players), "ok")
               /\ UNCHANGED <<pc, local>>
    /\ UNCHANGED <<players, disk, stateLock, es, tick>>

(* handleEventResponseCommand, line 934: player.CurrentEvent = nil, with no
   lock held. *)
RespClear(w) ==
    /\ pc[w] = "resp_clear"
    /\ players' = ClearCurrentEvent(players, local[w].phone)
    /\ Goto(w, "resp_call", local[w])
    /\ UNCHANGED <<disk, ret, calls, stateLock, es, tick>>

(* handleEventResponseCommand, line 965: the call of ProcessEventChoice up to
   its saveState. *)
RespCall(w) ==
    /\ pc[w] = "resp_call"
    /\ LockFree
    /\ \E die \in DiceFor(players, local[w].phone, local[w].arg1, local[w].arg2) :
        LET r == ProcessEventChoiceBody(players, local[w].phone, local[w].arg1,
                                        local[w].arg2, die)
        IN /\ players' = r.store
           /\ IF r.err = ""
              THEN /\ stateLock' = [stateLock EXCEPT !.writer = w]
                   /\ Goto(w, "flush", Frame("handleEventResponseCommand", local[w].phone,
                                             local[w].arg1, local[w].arg2, r))
                   /\ UNCHANGED ret
              ELSE /\ ret' = Returned("handleEventResponseCommand", local[w].phone, r, "ok")
                   /\ Goto(w, "idle", NoLocal)
                   /\ UNCHANGED stateLock
    /\ UNCHANGED <<disk, calls, es, tick>>

ConcNext ==
    \E w \in Workers :
        \/ \E p \in Phones, n \in Names : CRegisterPlayer(w, p, n)
        \/ \E p \in Phones, c \in CharacterArgs : CSelectCharacter(w, p, c)
        \/ \E p \in Phones, a \in ActionArgs : CPerformAction(w, p, a)
        \/ \E p \in Phones, st \in StatusArgs : CSetPlayerStatus(w, p, st)
        \/ \E p \in Phones : CGenerateEvent(w, p)
        \/ \E p \in Phones, e \in EventArgs, o \in OptionArgs : CProcessEventChoice(w, p, e, o)
        \/ Flush(w)
        \/ \E p \in Phones, z \in ZoneArgs, sz \in SubZoneArgs : MoveGetPlayer(w, p, z, sz)
        \/ MoveWrite(w)
        \/ MoveSave(w)
        \/ \E p \in Phones, l \in Letters : RespRead(w, p, l)
        \/ RespClear(w)
        \/ RespCall(w)

ConcSpec == Init /\ [][ConcNext]_vars

(***************************************************************************)
(* The event system next to concurrent commands.  A call of Start spawns a  *)
(* goroutine that waits in a select on the ticker's channel and on the stop *)
(* channel; a step of a goroutine is what it does between two points at     *)
(* which another goroutine can run and see a difference.                    *)
(*   none       the goroutine has not been spawned                          *)
(*   select     it waits in the select                                      *)
(*   enumerate  it has received a tick and is about to call GetAllPlayers   *)
(*   check      triggerEvents is at the start of the iteration for the      *)
(*              first player of todo                                        *)
(*   trigger    the draw was at most the probability                        *)
(*   send       TriggerRandomEvent has returned an event                    *)
(*   exited     it has received the stop signal and returned                *)
(***************************************************************************)
(* The process is running: no goroutine has panicked. *)
Alive == ~es.panicked

SetLoop(l, frame) == [es EXCEPT !.loop[l] = frame]

(* gm.stateLock.Unlock() left out. *)
Unlock_Skipped(lock) == lock

(* defer gm.stateLock.Unlock() *)
Unlock(lock) == [lock EXCEPT !.writer = NoWorker]

(* EventSystem.Start: go func() { for { select { ... } } }() *)
Start ==
    /\ Alive
    /\ calls < MaxCalls
    /\ \E i \in 1..MaxCalls :
          /\ es.loop[LoopId(i)].pc = "none"
          /\ \A k \in 1..(i - 1) : es.loop[LoopId(k)].pc # "none"
          /\ es' = SetLoop(LoopId(i), [NoLoop EXCEPT !.pc = "select"])
    /\ calls' = calls + 1
    /\ ret' = [NoReturn EXCEPT !.op = "Start"]
    /\ UNCHANGED <<players, disk, pc, stateLock, local, tick>>

(* EventSystem.Stop: close(es.stopChan), which panics when the channel is
   already closed; Stop returns as soon as the channel is closed. *)
Stop ==
    /\ Alive
    /\ calls < MaxCalls
    /\ es' = IF es.stopChan = "open"
             THEN [es EXCEPT !.stopChan = "closed", !.stopReturned = TRUE]
             ELSE [es EXCEPT !.panicked = TRUE]
    /\ calls' = calls + 1
    /\ ret' = [NoReturn EXCEPT !.op = "Stop"]
    /\ UNCHANGED <<players, disk, pc, stateLock, local, tick>>

(* The ticker, running since NewEventSystem, sends on its channel of
   capacity 1 and drops the tick when the channel is full. *)
TickerFire ==
    /\ Alive
    /\ ~es.tickerStopped
    /\ es.tickC = 0
    /\ es' = [es EXCEPT !.tickC = 1]
    /\ UNCHANGED <<players, disk, ret, calls, pc, stateLock, local, tick>>

(* case <-es.ticker.C: the select takes any case that is ready. *)
LoopTick(l) ==
    /\ Alive
    /\ es.loop[l].pc = "select"
    /\ es.tickC = 1
    /\ \E key \in Keys :
          es' = [es EXCEPT !.tickC = 0,
                           !.loop[l] = [NoLoop EXCEPT !.pc = "enumerate", !.key = key]]
    /\ UNCHANGED <<players, disk, ret, calls, pc, stateLock, local, tick>>

(* case <-es.stopChan: es.ticker.Stop(); return *)
LoopStop(l) ==
    /\ Alive
    /\ es.loop[l].pc = "select"
    /\ es.stopChan = "closed"
    /\ es' = [es EXCEPT !.tickerStopped = TRUE, !.loop[l] = [NoLoop EXCEPT !.pc = "exited"]]
    /\ UNCHANGED <<players, disk, ret, calls, pc, stateLock, local, tick>>

(* The frame of a goroutine that has finished the iteration for the first
   player of todo. *)
NextPlayer(frame) ==
    IF Len(frame.todo) <= 1 THEN [NoLoop EXCEPT !.pc = "select"]
    ELSE [frame EXCEPT !.pc = "check", !.todo = Tail(frame.todo), !.roll = 0,
                       !.available = {}, !.event = NoEvent]

(* triggerEvents, line 395: players := es.gameManager.GetAllPlayers(), which
   takes and releases the read lock. *)
TickEnumerate(l) ==
    /\ Alive
    /\ es.loop[l].pc = "enumerate"
    /\ CanRLock
    /\ \E order \in GetAllPlayers(players) :
          es' = SetLoop(l, IF order = <<>> THEN [NoLoop EXCEPT !.pc = "select"]
                           ELSE [es.loop[l] EXCEPT !.pc = "check", !.todo = order])
    /\ tick' = <<>>
    /\ UNCHANGED <<players, disk, ret, calls, pc, stateLock, local>>

(* triggerEvents, lines 398-430: the reads of the Player through the pointer
   GetAllPlayers returned, with no lock held, and the draw. *)
TickCheck(l) ==
    /\ Alive
    /\ es.loop[l].pc = "check"
    /\ LET frame == es.loop[l]
           phone == Head(frame.todo)
       IN \E recent \in IF frame.key = "ID" THEN BOOLEAN ELSE {FALSE}, roll \in DrawFaces :
             IF IsActive(players[phone]) /\ ~recent /\ roll <= RandomEventProbability
             THEN /\ es' = SetLoop(l, [frame EXCEPT !.pc = "trigger", !.roll = roll])
                  /\ UNCHANGED tick
             ELSE /\ es' = SetLoop(l, NextPlayer(frame))
                  /\ tick' = Append(tick, TickPlayer(players, frame.key, phone, recent, roll,
                                                     NoEvent, "ok"))
    /\ UNCHANGED <<players, disk, ret, calls, pc, stateLock, local>>

(* triggerEvents, lines 436-443: TriggerRandomEvent, which holds the write
   lock from its first line to its return. *)
TickTrigger(l) ==
    /\ Alive
    /\ es.loop[l].pc = "trigger"
    /\ LockFree
    /\ LET frame == es.loop[l]
           phone == Head(frame.todo)
           id == PlayerKey(players[phone], frame.key)
       IN \E pick \in TriggerRandomEventPicks(players, id) :
             LET r == TriggerRandomEventBody(players, id, pick)
                 available == IF PlayersByID(players, id) = {} THEN {}
                              ELSE AvailableEvents(
                                       players[CHOOSE p \in PlayersByID(players, id) : TRUE])
             IN IF r.err # ""
                THEN /\ es' = SetLoop(l, NextPlayer(frame))
                     /\ tick' = Append(tick, Entry(phone, "trigger_failed", frame.roll,
                                                   available, NoEvent, ""))
                ELSE /\ es' = SetLoop(l, [frame EXCEPT !.pc = "send", !.event = r.event,
                                                       !.available = available])
                     /\ UNCHANGED tick
    /\ stateLock' = Unlock([stateLock EXCEPT !.writer = l])
    /\ UNCHANGED <<players, disk, ret, calls, pc, local>>

(* triggerEvents, lines 453-461: SendMessage, which reads gm.state.Players
   with no lock held and calls the message sender. *)
TickSend(l) ==
    /\ Alive
    /\ es.loop[l].pc = "send"
    /\ LET frame == es.loop[l]
           phone == Head(frame.todo)
           to == SendMessageAddress(players, PlayerKey(players[phone], frame.key))
       IN \E sendResult \in SendResults :
             tick' = Append(tick, Entry(phone,
                                        IF to = "" \/ sendResult # "ok" THEN "send_failed"
                                        ELSE "sent",
                                        frame.roll, frame.available, frame.event, to))
    /\ es' = SetLoop(l, NextPlayer(es.loop[l]))
    /\ UNCHANGED <<players, disk, ret, calls, pc, stateLock, local>>

(* The commands that run next to the event system, while the process is
   alive. *)
CommandRegisterPlayer(w, phoneNumber, name) == Alive /\ CRegisterPlayer(w, phoneNumber, name)

CommandSetPlayerStatus(w, phoneNumber, status) ==
    Alive /\ CSetPlayerStatus(w, phoneNumber, status)

CommandFlush(w) == Alive /\ Flush(w)

SchedNext ==
    \/ Start
    \/ Stop
    \/ TickerFire
    \/ \E l \in Loops : LoopTick(l)
    \/ \E l \in Loops : LoopStop(l)
    \/ \E l \in Loops : TickEnumerate(l)
    \/ \E l \in Loops : TickCheck(l)
    \/ \E l \in Loops : TickTrigger(l)
    \/ \E l \in Loops : TickSend(l)
    \/ \E w \in Workers, p \in Phones, n \in Names : CommandRegisterPlayer(w, p, n)
    \/ \E w \in Workers, p \in Phones, st \in StatusArgs : CommandSetPlayerStatus(w, p, st)
    \/ \E w \in Workers : CommandFlush(w)

SchedSpec == Init /\ [][SchedNext]_vars

(***************************************************************************)
(* DecisionEngine (the choices of the auto-pilot).  ChooseEventOption and   *)
(* ChooseAction read their arguments and the dice only; a call leaves the   *)
(* store alone and ret holds its arguments, its draws and its result.       *)
(***************************************************************************)
NoOption == ""
NoAction == ""

(* evento_003 of events.json, with the identifier, the attribute and the
   difficulty of each of its four options. *)
Evento003 ==
    [ID |-> "evento_003",
     Options |-> << [ID |-> "opt_003_a", RequiredAttribute |-> "rede", DifficultyLevel |-> 10],
                    [ID |-> "opt_003_b", RequiredAttribute |-> "proficiencia", DifficultyLevel |-> 8],
                    [ID |-> "opt_003_c", RequiredAttribute |-> "carisma", DifficultyLevel |-> 9],
                    [ID |-> "opt_003_d", RequiredAttribute |-> "moralidade", DifficultyLevel |-> 6] >>]

(* The events handed to ChooseEventOption: those of the catalog and
   evento_003. *)
EngineEventIDs == EventIDs \cup {"evento_003"}

EngineEvent(eventID) == IF eventID \in EventIDs THEN Events[eventID] ELSE Evento003

(* The draws of de.diceRoller.Roll(10) that are tried, one per option: the
   two ends and the middle of 1..10. *)
OptionDrawFaces == {1, 5, OptionDrawSides}

OptionDraws(event) == [DOMAIN event.Options -> OptionDrawFaces]

(* What &option denotes in `for _, option := range event.Options`: with one
   variable for the whole loop (the language before Go 1.22) every stored
   pointer is the address of that variable, which holds the last option when
   the loop ends; with one variable per iteration (go 1.22 and later in
   go.mod) each pointer keeps its own option.  The repository asks for
   "Go 1.21+" and has no go.mod, so a build can give either. *)
LoopVariable == {"per_loop", "per_iteration"}

(* score: twice the attribute the option requires (nothing for another
   attribute name), minus the difficulty, plus the draw. *)
Score(character, option, draw) ==
    2 * AttributeValue(character, option.RequiredAttribute) - option.DifficultyLevel + draw

(* DecisionEngine.ChooseEventOption: the identifier of the option the
   returned pointer points to, NoOption for nil. *)
ChooseEventOptionBody(character, event, draws, loopVariable) ==
    IF Len(event.Options) = 0 THEN NoOption
    ELSE LET scores == [i \in DOMAIN event.Options |->
                           Score(character, event.Options[i], draws[i])]
             \* the scan keeps the first score that no later score exceeds
             best == CHOOSE i \in DOMAIN scores :
                        /\ \A j \in DOMAIN scores : scores[j] <= scores[i]
                        /\ \A j \in DOMAIN scores : j < i => scores[j] < scores[i]
         IN IF scores[best] <= HighestScoreStart THEN NoOption
            ELSE IF loopVariable = "per_loop" THEN event.Options[Len(event.Options)].ID
            ELSE event.Options[best].ID

ChooseEventOption(characterID, eventID) ==
    \E draws \in OptionDraws(EngineEvent(eventID)), loopVariable \in LoopVariable :
        /\ ret' = [op |-> "ChooseEventOption", character |-> characterID,
                   event |-> eventID, draws |-> draws,
                   result |-> ChooseEventOptionBody(Characters[characterID],
                                                    EngineEvent(eventID), draws, loopVariable)]
        /\ UNCHANGED <<players, disk, calls, pc, stateLock, local, es, tick>>

(* The lists of available actions handed to ChooseAction: the lists of the
   subzones of the catalog and the empty list. *)
AvailableLists ==
    {<<>>} \cup {Zones[z].SubZones[i].AvailableActions : z \in ZoneIDs, i \in {1}}
           \cup {Zones["centro"].SubZones[2].AvailableActions}

(* The draws of Roll(100) that are tried: the ends and the two values around
   the threshold. *)
ChanceDraws == {1, FavoriteChance, FavoriteChance + 1, 100}

(* FavoriteAmong taking every favourite of the character, available or not. *)
FavoriteAmong_AllFavorites(character, availableActions) == character.FavoriteActions

(* The loop that collects favoriteActions: the available actions, in order,
   that are among the character's favourites. *)
FavoriteAmong(character, availableActions) ==
    SelectSeq(availableActions, LAMBDA a : a \in Range(character.FavoriteActions))

(* DecisionEngine.ChooseAction: the identifier of the action returned,
   NoAction for nil.  chance is Roll(100), pickFavorite and pickAny are the
   Roll(len(...)) of the two return statements. *)
ChooseActionBody(character, availableActions, chance, pickFavorite, pickAny) ==
    IF Len(availableActions) = 0 THEN NoAction
    ELSE LET favoriteActions == FavoriteAmong(character, availableActions)
         IN IF Len(favoriteActions) > 0 /\ chance <= FavoriteChance
            THEN favoriteActions[pickFavorite]
            ELSE availableActions[pickAny]

ChooseAction(characterID, availableActions) ==
    LET favoriteActions == FavoriteAmong(Characters[characterID], availableActions)
    IN \E chance \in ChanceDraws,
          pickFavorite \in 1..(IF Len(favoriteActions) = 0 THEN 1 ELSE Len(favoriteActions)),
          pickAny \in 1..(IF Len(availableActions) = 0 THEN 1 ELSE Len(availableActions)) :
        /\ ret' = [op |-> "ChooseAction", character |-> characterID,
                   available |-> availableActions, chance |-> chance,
                   result |-> ChooseActionBody(Characters[characterID], availableActions,
                                               chance, pickFavorite, pickAny)]
        /\ UNCHANGED <<players, disk, calls, pc, stateLock, local, es, tick>>

EngineNext ==
    \/ \E c \in CharacterIDs, e \in EngineEventIDs : ChooseEventOption(c, e)
    \/ \E c \in CharacterIDs, a \in AvailableLists : ChooseAction(c, a)

EngineSpec == Init /\ [][EngineNext]_vars

(***************************************************************************)
(* Properties.                                                              *)
(***************************************************************************)
History(store, p) == IF Has(store, p) THEN store[p].DecisionHistory ELSE <<>>

IsPrefix(s, t) == Len(s) <= Len(t) /\ SubSeq(t, 1, Len(s)) = s

Last(s) == s[Len(s)]

RECURSIVE SumStress(_)
SumStress(h) == IF h = <<>> THEN 0 ELSE h[1].StressChange + SumStress(Tail(h))

SaveFailed == "failed to save game state"

(* The operations that resolve an action or an event choice. *)
ResolvingOps == {"PerformAction", "ProcessEventChoice", "handleEventResponseCommand"}

(* The steps in which a Decision is appended to the history of player p. *)
DecisionAppended(p) ==
    /\ Has(players, p) /\ Has(players', p)
    /\ Len(players'[p].DecisionHistory) = Len(players[p].DecisionHistory) + 1

(* C1: whatever calls have been made, the stress of every player is at
   least 0 and at most 100. *)
C1_StressInBounds ==
    \A p \in DOMAIN players : players[p].Stress >= 0 /\ players[p].Stress <= 100

(* A player whose recorded stress deltas add up to more than 100 and whose
   stress is 100. *)
C1_Witness ==
    \E p \in DOMAIN players :
        /\ SumStress(players[p].DecisionHistory) > 100
        /\ players[p].Stress = 100

(* C2: a call whose persistence flush fails returns an error and leaves the
   in-memory store as it was before the call. *)
C2_RollbackOnFlushFailure ==
    [][(calls' # calls /\ ret'.err = SaveFailed) => players' = players]_vars

(* C3: every write to a Player record is made by a worker that holds the
   exclusive lock of the store. *)
C3_WritesHoldExclusiveLock ==
    [][players' # players =>
          \E w \in Workers : pc'[w] # pc[w] /\ stateLock'.writer = w]_vars

(* C4: once a player has a character, no call changes it. *)
C4_CharacterImmutable ==
    [][\A p \in DOMAIN players :
          players[p].CurrentCharacter # NoCharacter
              => /\ Has(players', p)
                 /\ players'[p].CurrentCharacter = players[p].CurrentCharacter]_vars

(* C5: after an event selection has returned event E for a player, E is the
   player's pending event. *)
C5_SelectedEventIsPending ==
    /\ (ret.op = "GenerateEvent" /\ ret.err = "")
          => players[ret.phone].CurrentEvent = ret.event
    /\ (ret.op = "TriggerRandomEvent" /\ ret.err = "")
          => \A p \in PlayersByID(players, ret.phone) : players[p].CurrentEvent = ret.event

(* C6: an event choice is resolved for a player (an event Decision is
   appended and its Outcome applied) only when that event is the player's
   pending event; a player with no pending event gets no Outcome. *)
C6_ResolvesOnlyPendingEvent ==
    [][\A p \in Phones :
          (DecisionAppended(p) /\ ret'.op \in {"ProcessEventChoice", "handleEventResponseCommand"})
              => /\ players[p].CurrentEvent # NoEvent
                 /\ players[p].CurrentEvent = Last(players'[p].DecisionHistory).EventID]_vars

(* C7: when an event response that went on to resolve the player's pending
   event has returned, with an Outcome or with a persistence failure, the
   player has no pending event. *)
C7_NoStalePendingEvent ==
    (/\ ret.op = "handleEventResponseCommand"
     /\ ret.err \in {"", SaveFailed})
        => players[ret.phone].CurrentEvent = NoEvent

(* An event response that resolved the pending event, recorded its Decision
   and failed in the persistence flush. *)
C7_Witness ==
    /\ ret.op = "handleEventResponseCommand"
    /\ ret.err = SaveFailed
    /\ Len(History(players, ret.phone)) > 0
    /\ Last(History(players, ret.phone)).EventID = "evento_001"
    /\ players[ret.phone].CurrentEvent = NoEvent

(* C8: a successful PerformAction or event resolution appends exactly one
   Decision to the caller's history, and its four deltas are those of the
   Outcome the call returns. *)
C8_OneDecisionPerOutcome ==
    [][(calls' # calls /\ ret'.op \in ResolvingOps /\ ret'.err = "") =>
          LET h == History(players, ret'.phone)
              hh == History(players', ret'.phone)
          IN /\ Len(hh) = Len(h) + 1
             /\ IsPrefix(h, hh)
             /\ Last(hh).XPChange = ret'.outcome.XPChange
             /\ Last(hh).MoneyChange = ret'.outcome.MoneyChange
             /\ Last(hh).InfluenceChange = ret'.outcome.InfluenceChange
             /\ Last(hh).StressChange = ret'.outcome.StressChange]_vars

(* An event choice resolved after an action: the history holds both
   Decisions, the last one with the deltas of the returned Outcome. *)
C8_Witness ==
    /\ ret.op = "ProcessEventChoice"
    /\ ret.err = ""
    /\ Len(History(players, ret.phone)) = 2
    /\ Last(History(players, ret.phone)).StressChange = ret.outcome.StressChange
    /\ ret.outcome.StressChange # 0
    /\ History(players, ret.phone)[1].Choice \in ActionIDs

(* C9 as stated: the four deltas of an appended Decision are the differences
   between the player's values after and before the operation. *)
C9_DeltasAreDifferences ==
    [][\A p \in Phones :
          DecisionAppended(p) =>
              LET d == Last(players'[p].DecisionHistory)
              IN /\ d.XPChange = players'[p].XP - players[p].XP
                 /\ d.MoneyChange = players'[p].Money - players[p].Money
                 /\ d.InfluenceChange = players'[p].Influence - players[p].Influence
                 /\ d.StressChange = players'[p].Stress - players[p].Stress]_vars

(* C9 as amended: the experience, currency and influence deltas of an
   appended Decision are the differences between the player's values after
   and before the operation; the stress delta is the Outcome's, and the
   player's stress is the old stress plus that delta, clamped to [0,100]. *)
C9_DeltasAreDifferencesUpToClamp ==
    [][\A p \in Phones :
          DecisionAppended(p) =>
              LET d == Last(players'[p].DecisionHistory)
                  sum == players[p].Stress + d.StressChange
              IN /\ d.XPChange = players'[p].XP - players[p].XP
                 /\ d.MoneyChange = players'[p].Money - players[p].Money
                 /\ d.InfluenceChange = players'[p].Influence - players[p].Influence
                 /\ players'[p].Stress = IF sum < 0 THEN 0 ELSE IF sum > 100 THEN 100 ELSE sum
                 /\ (sum >= 0 /\ sum <= 100
                        => d.StressChange = players'[p].Stress - players[p].Stress)]_vars

(* A Decision whose stress delta was cut by the clamp, next to money and
   influence deltas that were applied in full. *)
C9_Witness ==
    \E p \in DOMAIN players :
        /\ Len(players[p].DecisionHistory) = 2
        /\ SumStress(players[p].DecisionHistory) > 100
        /\ players[p].Stress = 100
        /\ players[p].Influence # DefaultInfluence
        /\ players[p].Money # DefaultMoney

(* C10: every step leaves each player's Decision history as it was or
   extends it at its end. *)
C10_HistoryAppendOnly ==
    [][\A p \in DOMAIN players :
          Has(players', p) /\ IsPrefix(players[p].DecisionHistory,
                                       players'[p].DecisionHistory)]_vars

(* A history to which a second, different Decision was appended. *)
C10_Witness ==
    \E p \in DOMAIN players :
        /\ Len(players[p].DecisionHistory) = 2
        /\ players[p].DecisionHistory[1] # players[p].DecisionHistory[2]

(* The operations that write to the store. *)
MutatingOps == {"RegisterPlayer", "SelectCharacter", "PerformAction", "GenerateEvent",
                "ProcessEventChoice", "SetPlayerStatus", "MovePlayer",
                "handleEventResponseCommand"}

(* C11: when a mutating operation returns success, the document on disk is
   complete and holds the store as the operation left it, its mutation
   included. *)
C11_SuccessMeansFlushed ==
    [][(calls' # calls /\ ret'.op \in MutatingOps /\ ret'.err = "") =>
          /\ disk'.status = "complete"
          /\ disk'.players = MarshalPlayers(players')]_vars

(* A successful MovePlayer after a successful status change: the document
   holds the new location and the new status. *)
C11_Witness ==
    /\ ret.op = "MovePlayer"
    /\ ret.err = ""
    /\ calls = 2
    /\ players[ret.phone].CurrentZone = "zona_sul"
    /\ disk.status = "complete"
    /\ disk.players[ret.phone].current_zone = "zona_sul"
    /\ disk.players[ret.phone].status = "sleeping"

(* An event is eligible for a player when the player's experience, currency
   and influence are each at least the event's minimum and the event's zone
   list is empty or names the player's current zone. *)
MeetsFilter(player, e) ==
    /\ player.XP >= Events[e].MinXP
    /\ player.Money >= Events[e].MinMoney
    /\ player.Influence >= Events[e].MinInfluence
    /\ \/ Events[e].RequiredZone = <<>>
       \/ \E i \in DOMAIN Events[e].RequiredZone : Events[e].RequiredZone[i] = player.CurrentZone

NoEligibleEvents == "no eligible events found for player"

(* C16: an event returned by GenerateEvent is eligible for the player, and
   for a registered player with a character GenerateEvent answers "no
   eligible events" exactly when no event of the catalog is eligible. *)
C16_SelectsOnlyEligible ==
    ret.op = "GenerateEvent" =>
        /\ ret.err = "" => /\ ret.event \in EventIDs
                           /\ MeetsFilter(players[ret.phone], ret.event)
        /\ (Has(players, ret.phone) /\ players[ret.phone].CurrentCharacter # NoCharacter)
              => (ret.err = NoEligibleEvents
                    <=> ~\E e \in EventIDs : MeetsFilter(players[ret.phone], e))

(* A player with a character, in a zone no event names and below the
   minimums of the events that name no zone, is told that no event is
   eligible. *)
C16_Witness ==
    /\ ret.op = "GenerateEvent"
    /\ ret.err = NoEligibleEvents
    /\ players[ret.phone].CurrentCharacter # NoCharacter
    /\ players[ret.phone].CurrentZone = "zona_sul"
    /\ players[ret.phone].XP < Events["evento_002"].MinXP

(* The steps that are one run of triggerEvents. *)
TickRan == calls' # calls /\ ret'.op = "triggerEvents"

(* C14: in a run of triggerEvents, every active player whose draw is at most
   the trigger probability and for whom some event is eligible gets an
   event, and a notification addressed to that player is handed to the
   message sender. *)
C14_TriggeredPlayersAreNotified ==
    [][TickRan =>
          \A i \in DOMAIN tick' :
              LET e == tick'[i]
                  player == players[e.phone]
              IN (/\ player.Status = "active"
                  /\ e.roll \in 1..RandomEventProbability
                  /\ \E ev \in EventIDs : MeetsFilter(player, ev))
                     => e.event \in EventIDs /\ e.to = e.phone]_vars

(* C15: the events among which triggerEvents chooses for a player are the
   events eligible for that player, and an event it delivers is eligible. *)
C15_SchedulerUsesEligibilityFilter ==
    [][TickRan =>
          \A i \in DOMAIN tick' :
              LET e == tick'[i]
                  player == players[e.phone]
              IN /\ e.event # NoEvent => MeetsFilter(player, e.event)
                 /\ e.step \in {"trigger_failed", "send_failed", "sent"}
                       => e.available = {ev \in EventIDs : MeetsFilter(player, ev)}]_vars

(* C17: a run of triggerEvents makes no draw, selects no event and hands no
   notification to the message sender for a player whose status is not
   active. *)
C17_OnlyActivePlayers ==
    [][TickRan =>
          \A i \in DOMAIN tick' :
              players[tick'[i].phone].Status # "active"
                  => /\ tick'[i].step = "inactive"
                     /\ tick'[i].roll = 0
                     /\ tick'[i].event = NoEvent
                     /\ tick'[i].to = ""]_vars

(* A sleeping player in a zone with an available event was passed over. *)
C17_Witness ==
    /\ ret.op = "triggerEvents"
    /\ \E i \in DOMAIN tick :
          /\ tick[i].step = "inactive"
          /\ players[tick[i].phone].Status = "sleeping"
          /\ AvailableEvents(players[tick[i].phone]) # {}

(* C18: a run of triggerEvents processes every player of the store once,
   whatever failed for the players processed before. *)
C18_FailureDoesNotStopTick ==
    [][TickRan =>
          /\ Len(tick') = Cardinality(DOMAIN players)
          /\ {tick'[i].phone : i \in DOMAIN tick'} = DOMAIN players]_vars

(* The first player's event could not be triggered; the second player, next
   in the same run, was sent a notification. *)
C18_Witness ==
    /\ ret.op = "triggerEvents"
    /\ Len(tick) = 2
    /\ tick[1].step = "trigger_failed"
    /\ tick[2].step = "sent"
    /\ tick[2].to = tick[2].phone

(* The goroutines that are in the tick loop. *)
RunningLoops == {l \in Loops : es.loop[l].pc \notin {"none", "exited"}}

(* C12: once Stop has returned, no goroutine leaves the select with a tick,
   that is, no run of triggerEvents begins. *)
C12_NoTickAfterStop ==
    [][\A l \in Loops :
          (es.loop[l].pc = "select" /\ es'.loop[l].pc = "enumerate")
              => ~es.stopReturned]_vars

(* C13: however often Start and Stop are called, at most one tick loop is
   running and no call of Stop panics. *)
C13_StartStopIdempotent ==
    /\ Cardinality(RunningLoops) <= 1
    /\ ~es.panicked

(* C19: a goroutine of the event system that is sending a message holds the
   store lock neither for writing nor for reading. *)
C19_SendOutsideLock ==
    \A l \in Loops :
        es.loop[l].pc = "send" => stateLock.writer # l /\ l \notin stateLock.readers

(* While a message send of the event system is in progress, a command has
   taken the write lock, changed the store and reached its flush. *)
C19_Witness ==
    \E l \in Loops, w \in Workers :
        /\ es.loop[l].pc = "send"
        /\ pc[w] = "flush"
        /\ stateLock.writer = w
        /\ local[w].op = "SetPlayerStatus"
        /\ players[Head(es.loop[l].todo)].Status = "sleeping"

(* C20: the event system reads a Player record (its status at the start of
   an iteration, the lookup of SendMessage) only while no command holds the
   write lock. *)
C20_ReadsDoNotOverlapWrites ==
    [][\A l \in Loops :
          (es.loop[l].pc \in {"check", "send"} /\ es'.loop[l] # es.loop[l])
              => stateLock.writer = NoWorker]_vars

AlreadyExists == "player already registered"

(* C21: a RegisterPlayer for a phone number that is already registered
   returns "player already registered" and leaves the store, and with it the
   Player record of the first registration, as it was. *)
C21_SecondRegisterRejected ==
    [][\A p \in Phones, n \in Names :
          (RegisterPlayer(p, n) /\ Has(players, p))
              => /\ ret'.err = AlreadyExists
                 /\ players' = players
                 /\ players'[p].Name = players[p].Name
                 /\ players'[p].DecisionHistory = players[p].DecisionHistory]_vars

(* A second registration was rejected for a player who had been registered
   under another name and has a Decision in the history. *)
C21_Witness ==
    /\ ret.op = "RegisterPlayer"
    /\ ret.err = AlreadyExists
    /\ players[ret.phone].Name = "Ana"
    /\ Len(players[ret.phone].DecisionHistory) = 1
    /\ players[ret.phone].XP # DefaultXP

(* The four deltas of an Outcome. *)
Deltas(outcome) ==
    <<outcome.XPChange, outcome.MoneyChange, outcome.InfluenceChange, outcome.StressChange>>

(* C22: when ProcessEventChoice resolves an option with the die showing
   1..20, the Outcome it returns and records is the option's success Outcome
   if the die plus the checked attribute is at least the difficulty, and the
   failure Outcome otherwise. *)
C22_SuccessIffRollMeetsDifficulty ==
    [][(calls' # calls /\ ret'.op = "ProcessEventChoice" /\ DecisionAppended(ret'.phone)) =>
          LET p == ret'.phone
              e == Last(players'[p].DecisionHistory).EventID
              o == Last(players'[p].DecisionHistory).Choice
              option == Events[e].Options[FindOption(Events[e], o)]
              attribute == AttributeValue(Characters[players[p].CurrentCharacter],
                                          option.RequiredAttribute)
          IN \A die \in 1..DieSides :
                ProcessEventChoiceRolled(p, e, o, die)
                    => LET expected == IF die + attribute >= option.DifficultyLevel
                                       THEN option.SuccessOutcome ELSE option.FailureOutcome
                       IN /\ Deltas(Last(players'[p].DecisionHistory)) = Deltas(expected)
                          /\ ret'.err = "" => ret'.outcome = expected]_vars

(* Option opt_001_a (carisma 3 against difficulty 14) was resolved twice by
   one player: once with its success Outcome and once with its failure
   Outcome. *)
C22_Witness ==
    \E p \in DOMAIN players :
        LET h == players[p].DecisionHistory
            option == Events["evento_001"].Options[1]
        IN /\ Len(h) = 2
           /\ h[1].Choice = "opt_001_a" /\ h[2].Choice = "opt_001_a"
           /\ Deltas(h[1]) = Deltas(option.SuccessOutcome)
           /\ Deltas(h[2]) = Deltas(option.FailureOutcome)

(* The delta the scaling rule yields in exact arithmetic: x times
   (1 + attribute/100), then times (1 + reward/100), then times 1.20 for a
   favourite action, truncated toward zero after each step. *)
ClaimedDelta(x, attribute, reward, favorite) ==
    LET a == ScaleByPercent_Exact(x, attribute)
        z == ScaleByPercent_Exact(a, reward)
    IN IF favorite THEN Trunc(z * 120, 100) ELSE z

(* C23: the xp, money and influence deltas of a performed action are the
   base deltas scaled by the attribute bonus, then by the reward multiplier
   of the subzone, then by 1.20 for a favourite action, truncating after each
   step (proficiencia 4, xp +10, multiplier 100, favourite: 24). *)
C23_ScalingChain ==
    [][(calls' # calls /\ ret'.op = "PerformAction" /\ DecisionAppended(ret'.phone)) =>
          LET p == ret'.phone
              d == Last(players'[p].DecisionHistory)
              action == Actions[d.Choice]
              character == Characters[players[p].CurrentCharacter]
              zone == Zones[players[p].CurrentZone]
              subZone == zone.SubZones[FindSubZone(zone, players[p].CurrentSubZone)]
              attribute == AttributeValue(character, action.BonusAttribute)
              favorite == action.ID \in Range(character.FavoriteActions)
              Claimed(x) == ClaimedDelta(x, attribute, subZone.RewardMultiplier, favorite)
          IN /\ d.XPChange = Claimed(action.BaseOutcome.XPChange)
             /\ d.MoneyChange = Claimed(action.BaseOutcome.MoneyChange)
             /\ d.InfluenceChange = Claimed(action.BaseOutcome.InfluenceChange)]_vars

(* C24: the stress delta of a performed action, as returned, as recorded and
   as added to the player's stress before the clamp, is the base stress delta
   of the action, whatever the attribute, the reward multiplier and the
   favourite status. *)
C24_StressNotScaled ==
    [][(calls' # calls /\ ret'.op = "PerformAction" /\ DecisionAppended(ret'.phone)) =>
          LET p == ret'.phone
              d == Last(players'[p].DecisionHistory)
              base == Actions[d.Choice].BaseOutcome.StressChange
          IN /\ d.StressChange = base
             /\ ret'.err = "" => ret'.outcome.StressChange = base
             /\ players'[p].Stress =
                    IF players[p].Stress + base > StressMax THEN StressMax
                    ELSE IF players[p].Stress + base < StressMin THEN StressMin
                    ELSE players[p].Stress + base]_vars

(* A favourite action performed with a positive attribute in a subzone with a
   reward multiplier: the xp delta was scaled from 10 to 24 and the stress
   delta is the base 60, which the player's stress now shows. *)
C24_Witness ==
    /\ ret.op = "PerformAction" /\ ret.err = ""
    /\ ret.outcome.XPChange = 24 /\ ret.outcome.StressChange = 60
    /\ players[ret.phone].Stress = 60

(* The available-action list of the player's current subzone; empty when the
   player's zone and subzone name no subzone of the catalog. *)
AvailableActionList(player) ==
    IF player.CurrentZone \notin ZoneIDs THEN {}
    ELSE LET zone == Zones[player.CurrentZone]
             idx == FindSubZone(zone, player.CurrentSubZone)
         IN IF idx = 0 THEN {} ELSE Range(zone.SubZones[idx].AvailableActions)

NotFound == "player not found"
NoCharacterSelected == "player has no character selected"
ActionNotFound == "action not found"
ActionUnavailable == "action not available in current location"

(* C25: PerformAction answers an unknown player with NotFound, a player
   without a character with NoCharacter, an unknown action with
   ActionNotFound and an action that is not in the available-action list of
   the player's current subzone with ActionUnavailable; it changes the store
   only when none of the four holds. *)
C25_PerformActionErrors ==
    [][(calls' # calls /\ ret'.op = "PerformAction") =>
          \A a \in ActionArgs :
              PerformAction(ret'.phone, a) =>
                  LET p == ret'.phone
                      unknown == ~Has(players, p)
                      noCharacter == ~unknown /\ players[p].CurrentCharacter = NoCharacter
                      noAction == a \notin ActionIDs
                      unavailable == /\ ~unknown /\ ~noCharacter /\ ~noAction
                                     /\ a \notin AvailableActionList(players[p])
                  IN /\ unknown => ret'.err = NotFound
                     /\ noCharacter => ret'.err = NoCharacterSelected
                     /\ (~unknown /\ ~noCharacter /\ noAction) => ret'.err = ActionNotFound
                     /\ unavailable => ret'.err = ActionUnavailable
                     /\ (unknown \/ noCharacter \/ noAction \/ unavailable)
                            => players' = players]_vars

EventNotFound == "event not found"
OptionNotFound == "option not found"

(* The identifiers of the options of a catalog event. *)
OptionIDs(eventID) == {Events[eventID].Options[i].ID : i \in DOMAIN Events[eventID].Options}

(* C26: ProcessEventChoice answers an unknown player with NotFound, a player
   without a character with NoCharacter, an event identifier that is not in
   the catalog with EventNotFound and an option identifier that is not an
   option of that event with OptionNotFound; it applies an Outcome exactly
   when none of the four holds. *)
C26_ProcessEventChoiceErrors ==
    [][(calls' # calls /\ ret'.op = "ProcessEventChoice") =>
          \A e \in EventArgs, o \in OptionArgs :
              ProcessEventChoice(ret'.phone, e, o) =>
                  LET p == ret'.phone
                      unknown == ~Has(players, p)
                      noCharacter == ~unknown /\ players[p].CurrentCharacter = NoCharacter
                      noEvent == e \notin EventIDs
                      noOption == ~noEvent /\ o \notin OptionIDs(e)
                      rejected == unknown \/ noCharacter \/ noEvent \/ noOption
                  IN /\ unknown => ret'.err = NotFound
                     /\ noCharacter => ret'.err = NoCharacterSelected
                     /\ (~unknown /\ ~noCharacter /\ noEvent) => ret'.err = EventNotFound
                     /\ (~unknown /\ ~noCharacter /\ noOption) => ret'.err = OptionNotFound
                     /\ rejected => players' = players
                     /\ ~rejected => /\ DecisionAppended(p)
                                     /\ Last(players'[p].DecisionHistory).EventID = e
                                     /\ Last(players'[p].DecisionHistory).Choice = o]_vars

(* A player with a character named a catalog event and an identifier that is
   not one of its options, and was answered with OptionNotFound. *)
C26_Witness ==
    /\ ret.op = "ProcessEventChoice" /\ ret.err = OptionNotFound
    /\ Has(players, ret.phone) /\ players[ret.phone].CurrentCharacter # NoCharacter

CharacterNotFound == "character not found"

(* C27: SelectCharacter answers an unknown player with PlayerNotFound and an
   identifier that is not in the character catalog with CharacterNotFound,
   and in both cases leaves every player's character, zone and subzone as
   they were. *)
C27_SelectCharacterErrors ==
    [][(calls' # calls /\ ret'.op = "SelectCharacter") =>
          \A c \in CharacterArgs :
              SelectCharacter(ret'.phone, c) =>
                  LET p == ret'.phone
                      unknown == ~Has(players, p)
                      noCharacter == ~unknown /\ c \notin CharacterIDs
                  IN /\ unknown => ret'.err = NotFound
                     /\ noCharacter => ret'.err = CharacterNotFound
                     /\ (unknown \/ noCharacter) =>
                            /\ DOMAIN players' = DOMAIN players
                            /\ \A q \in DOMAIN players :
                                  /\ players'[q].CurrentCharacter = players[q].CurrentCharacter
                                  /\ players'[q].CurrentZone = players[q].CurrentZone
                                  /\ players'[q].CurrentSubZone = players[q].CurrentSubZone]_vars

(* A player who has the character estudante and has moved to
   centro/porto_maravilha named an unknown character: the call was answered
   with CharacterNotFound and the player still has both. *)
C27_Witness ==
    /\ ret.op = "SelectCharacter" /\ ret.err = CharacterNotFound
    /\ Has(players, ret.phone)
    /\ players[ret.phone].CurrentCharacter = "estudante"
    /\ players[ret.phone].CurrentSubZone = "porto_maravilha"

Statuses == {"active", "sleeping", "autopilot"}
InvalidStatus == "invalid status"

(* C28: in every reachable state the status of every player is active,
   sleeping or autopilot; a player that has just been registered is active,
   and SetPlayerStatus with any other value for a known player returns
   InvalidStatus and leaves the status as it was. *)
C28_StatusIsValid ==
    [][/\ \A p \in DOMAIN players : players[p].Status \in Statuses
       /\ \A p \in DOMAIN players' : players'[p].Status \in Statuses
       /\ (calls' # calls /\ ret'.op = "RegisterPlayer" /\ ret'.err # AlreadyExists)
              => /\ Has(players', ret'.phone)
                 /\ players'[ret'.phone].Status = "active"
       /\ (calls' # calls /\ ret'.op = "SetPlayerStatus" /\ Has(players, ret'.phone)) =>
              \A st \in StatusArgs \ Statuses :
                  SetPlayerStatus(ret'.phone, st)
                      => /\ ret'.err = InvalidStatus
                         /\ players' = players]_vars

(* A player who went to sleep asked for a status outside the three: the call
   returned InvalidStatus and the player is still sleeping. *)
C28_Witness ==
    /\ ret.op = "SetPlayerStatus" /\ ret.err = InvalidStatus
    /\ Has(players, ret.phone) /\ players[ret.phone].Status = "sleeping"

(* The identifiers of the subzones of a catalog zone. *)
SubZoneIDs(zoneID) == {Zones[zoneID].SubZones[i].ID : i \in DOMAIN Zones[zoneID].SubZones}

(* C29: MovePlayer changes a player's zone and subzone only if the zone is in
   the catalog and the subzone is a subzone of that zone, and then to exactly
   these two; otherwise it returns ZoneNotFound, or SubZoneNotFound for a
   catalog zone, and every player's zone and subzone are as they were. *)
C29_MoveOnlyToCatalogLocation ==
    [][(calls' # calls /\ ret'.op = "MovePlayer" /\ Has(players, ret'.phone)) =>
          \A z \in ZoneArgs, sz \in SubZoneArgs :
              MovePlayer(ret'.phone, z, sz) =>
                  LET p == ret'.phone
                      noZone == z \notin ZoneIDs
                      noSubZone == ~noZone /\ sz \notin SubZoneIDs(z)
                  IN /\ noZone => ret'.err = "zone not found: " \o z
                     /\ noSubZone => ret'.err = "subzone not found: " \o sz
                     /\ (noZone \/ noSubZone) =>
                            \A q \in DOMAIN players :
                                /\ players'[q].CurrentZone = players[q].CurrentZone
                                /\ players'[q].CurrentSubZone = players[q].CurrentSubZone
                     /\ ~(noZone \/ noSubZone) =>
                            /\ players'[p].CurrentZone = z
                            /\ players'[p].CurrentSubZone = sz]_vars

(* A player at centro/porto_maravilha asked to move to copacabana, which is a
   subzone of another zone than the one named: the call returned
   SubZoneNotFound and the player is where it was. *)
C29_Witness ==
    /\ ret.op = "MovePlayer" /\ ret.err = "subzone not found: copacabana"
    /\ Has(players, ret.phone)
    /\ players[ret.phone].CurrentZone = "centro"
    /\ players[ret.phone].CurrentSubZone = "porto_maravilha"

(* C30: a store that was saved and is loaded again is the store that was
   saved: the same players, each with the same value in every field and with
   the same decisions in the same order. *)
C30_SaveLoadRoundTrip ==
    [][(disk' # disk /\ disk'.status = "complete") =>
          LET loaded == LoadGameState(disk')
          IN /\ DOMAIN loaded = DOMAIN players'
             /\ \A p \in DOMAIN loaded :
                   /\ loaded[p] = players'[p]
                   /\ Len(loaded[p].DecisionHistory) = Len(players'[p].DecisionHistory)
                   /\ \A i \in 1..Len(loaded[p].DecisionHistory) :
                         loaded[p].DecisionHistory[i] = players'[p].DecisionHistory[i]]_vars

(* The saved document holds a player with a character, a pending event and
   two different decisions, and loading it gives the store in memory. *)
C30_Witness ==
    /\ disk.status = "complete"
    /\ \E p \in DOMAIN disk.players :
          /\ disk.players[p].current_character # JSONNull
          /\ disk.players[p].current_event # JSONNull
          /\ Len(disk.players[p].decision_history) = 2
          /\ disk.players[p].decision_history[1] # disk.players[p].decision_history[2]
    /\ LoadGameState(disk) = players

(* C31: whatever happens to a save, the document afterwards is either the
   complete document that was there before or the complete encoding of the
   store being saved, never a partly written one. *)
C31_SaveIsAtomic ==
    [][/\ disk'.status # "partial"
       /\ \/ disk' = disk
          \/ /\ disk'.status = "complete"
             /\ disk'.players = MarshalPlayers(players')]_vars

(* The score of option i of the event of the last ChooseEventOption call. *)
ScoreOf(i) ==
    LET option == EngineEvent(ret.event).Options[i]
    IN 2 * AttributeValue(Characters[ret.character], option.RequiredAttribute)
           - option.DifficultyLevel + ret.draws[i]

(* C32: ChooseEventOption returns an option whose score, twice the attribute
   minus the difficulty plus the draw, is the highest of the event's options,
   and among several options with that score the first in option order. *)
C32_HighestScoreFirstWins ==
    ret.op = "ChooseEventOption" =>
        \E i \in DOMAIN EngineEvent(ret.event).Options :
            /\ ret.result = EngineEvent(ret.event).Options[i].ID
            /\ \A j \in DOMAIN EngineEvent(ret.event).Options :
                  /\ ScoreOf(j) <= ScoreOf(i)
                  /\ j < i => ScoreOf(j) < ScoreOf(i)

(* C33: ChooseAction returns nothing exactly when the list of available
   actions is empty and otherwise one of the actions of the list: one of the
   character's favourites among them when there is one and the draw in
   1..100 is at most 60. *)
C33_ChoosesAnAvailableAction ==
    ret.op = "ChooseAction" =>
        LET available == Range(ret.available)
            favorites == available \cap Range(Characters[ret.character].FavoriteActions)
        IN /\ (available = {}) <=> (ret.result = NoAction)
           /\ available # {} => ret.result \in available
           /\ (favorites # {} /\ ret.chance <= 60) => ret.result \in favorites

(* estudante, whose favourite trabalhar is one of two available actions,
   drew 60 and got trabalhar. *)
C33_Witness ==
    /\ ret.op = "ChooseAction"
    /\ ret.character = "estudante"
    /\ ret.available = <<"trabalhar", "relaxar">>
    /\ ret.chance = 60
    /\ ret.result = "trabalhar"

(* C34: a player whose stress has reached 100 is in autopilot status, and
   stays in it as long as the stress is 100. *)
C34_AutopilotAtFullStress ==
    \A p \in DOMAIN players :
        players[p].Stress = StressMax => players[p].Status = "autopilot"

(* The operations whose validation errors are considered. *)
ValidatingOps == {"PerformAction", "ProcessEventChoice", "SelectCharacter",
                  "SetPlayerStatus", "MovePlayer"}

(* The errors with which these operations refuse their arguments. *)
ValidationErrors ==
    {NotFound, NoCharacterSelected, ActionNotFound, ActionUnavailable,
     "invalid player zone", "invalid player subzone",
     EventNotFound, OptionNotFound, CharacterNotFound, InvalidStatus}
        \cup {"zone not found: " \o z : z \in ZoneArgs}
        \cup {"subzone not found: " \o sz : sz \in SubZoneArgs}

(* C35: a PerformAction, ProcessEventChoice, SelectCharacter, SetPlayerStatus
   or MovePlayer call that returns a validation error leaves the whole store
   as it was: the same players with the same counters, location, status and
   history. *)
C35_ValidationErrorChangesNothing ==
    [][(calls' # calls /\ ret'.op \in ValidatingOps /\ ret'.err \in ValidationErrors)
          => players' = players]_vars

(* A player who has already performed an action asked for one that the
   current subzone does not offer: the call returned ActionUnavailable and
   the history still has its one decision. *)
C35_Witness ==
    /\ ret.op = "PerformAction" /\ ret.err = ActionUnavailable
    /\ Has(players, ret.phone)
    /\ Len(players[ret.phone].DecisionHistory) = 1
    /\ players[ret.phone].XP # DefaultXP

(* C36: a player who has a character is in a zone of the catalog and in a
   subzone of that zone, so that no operation can fail with an invalid-zone
   or invalid-subzone error. *)
C36_LocationIsInCatalog ==
    \A p \in DOMAIN players :
        players[p].CurrentCharacter # NoCharacter
            => /\ players[p].CurrentZone \in ZoneIDs
               /\ players[p].CurrentSubZone \in SubZoneIDs(players[p].CurrentZone)
(* C37: every complete snapshot written to the document is the encoding of
   the whole store as it stood before or after an operation, never of a store
   that holds only some of the writes of an operation. *)
C37_SnapshotIsWholeStore ==
    [][(disk' # disk /\ disk'.status = "complete")
          => \/ disk'.players = MarshalPlayers(players)
             \/ \E v \in Workers :
                    /\ pc[v] = "flush"
                    /\ disk'.players = MarshalPlayers(local[v].before)]_vars

(* C38: a pending event is resolved at most once: when a response applies an
   Outcome and appends a Decision for a player's pending event, no other
   response of that player has read the same event as pending and is on its
   way to apply one too. *)
C38_ResolvedAtMostOnce ==
    [][\A w \in Workers :
          (pc[w] = "resp_call" /\ pc'[w] = "flush")
              => \A v \in Workers \ {w} :
                    ~(/\ pc[v] \in {"resp_clear", "resp_call"}
                      /\ local[v].phone = local[w].phone
                      /\ local[v].arg1 = local[w].arg1)]_vars

====
